---- MODULE Spec2Model ----
(***************************************************************************)
(* Anlasser: the Agent supervisor (src/src/anlasser/AnlasserAgent.py).     *)
(*                                                                         *)
(* The Agent is one control thread: its position is pc.  The watcher       *)
(* processes it spawned and the delivery of SIGTERM/SIGINT to the Agent    *)
(* are the environment; they act between any two steps of the Agent.       *)
(* Time is counted in polling intervals of _parallel_vm_shutdown: only     *)
(* sleep(1) lets the clock advance.                                        *)
(*                                                                         *)
(* Spec is the Agent alone.  SpecVM is one VM Watcher alone                *)
(* (src/src/anlasser/AnlasserVM.py, AnlasserVMCli.py): one control thread  *)
(* at vm_pc; its hypervisor child, the tap device, the signals delivered   *)
(* to the watcher and the config file it is given are its environment.     *)
(***************************************************************************)
EXTENDS Integers, Sequences, FiniteSets, TLC

\* ------------------------------------------------------------------ bounds

\* VM names clients ask for.
Names == {"A", "B"}

\* Watcher processes the Agent may spawn in one behaviour (pids 1..MaxSpawns).
MaxSpawns == 3

\* The coordinator's deadline in polling intervals (the code passes 330).
timeout == 2

Pids == 1..MaxSpawns

\* dict.get() answering None
NoPid == 0

\* __init__: self._exit_code = 128
InitExitCode == 128

VARIABLES
    registry,       \* self._anlasser_watcher_procs: dict in insertion order, <<[name, pid]>>
    procs,          \* OS process table of the spawned watchers: pid -> [name, st]
    next_pid,       \* pid the next Popen gets
    shutdown_flag,  \* self.shutdown_flag
    exit_code,      \* self._exit_code
    pc,             \* position of the Agent's control thread
    last_request,   \* the request of the connection being served / last served
    response,       \* what _send_response sent on that connection
    exch,           \* history: what the dispatch of that request found (registry, next pid)
    hitlist,        \* _parallel_vm_shutdown: hitlist
    ps_idx,         \* _parallel_vm_shutdown: position of the terminate / kill loop
    ps_caller,      \* who called _parallel_vm_shutdown: "stop" or "shutdown"
    ps_result,      \* return value of _parallel_vm_shutdown
    clock,          \* time() since the coordinator was entered, in polling intervals
    deadline,       \* _parallel_vm_shutdown: deadline
    ps_targets,     \* history: pids of the hitlist as first computed
    ps_term_sent,   \* history: pids terminate() was called on in this exchange
    ps_kill_sent,   \* history: pids kill() was called on in this exchange
    ps_late,        \* history: targets that exited only after the last poll of the loop
    ever_started,   \* history: names a watcher was ever spawned for
    up_since_stop,  \* history: names started successfully and not asked to stop since
    raw_client_data,\* what recv(8192) returned on the connection being served / last served
    n_sent,         \* history: number of _send_response calls on that connection
    server_socket,  \* self._server_socket: "open" (bound, listening in run()) or "closed"
    socket_file,    \* the socket file at self._socket_path exists
    vm_pc,          \* AnlasserVM: position of the watcher's control thread
    config,         \* AnlasserVM: the config file load_config is given, and the files around it
    bhyve_command,  \* AnlasserVM.bhyve_command
    vm_shutdown_flag,       \* AnlasserVM.shutdown_flag
    network_setup_done,     \* AnlasserVM._network_setup_done
    bhyve_proc,     \* the Popen handle run() iterates over: [st, returncode, args]
    n_popen,        \* history: number of hypervisor children spawned by run()
    dev_vmm,        \* /dev/vmm/<name> exists
    tap,            \* the tap device: "absent", "present", "bridged" or "destroyed"
    vm_result,      \* how load_config / run() ended: a return value or the exception raised
    wait_deadline,  \* _shutdown_bhyve: when bhyve_proc.wait(timeout) gives up, on the clock
    h_net,          \* history: per child, what the network-setup step did
    h_signals,      \* history: per child, the signals the watcher sent it
    h_shutdown,     \* history: children _shutdown_bhyve was called on
    h_cleanup,      \* history: the _cleanup runs, each with what it found and did
    h_flag_at_run,  \* history: the shutdown flag as it was when run() was called
    cx_pc,          \* codec: how far the message under way has got
    cx_side,        \* codec: who built the message, "request" (client) or "response" (Agent)
    cx_data,        \* codec: the mapping the sender built
    cx_wire,        \* codec: the bytes sendall() was given
    cx_raw,         \* codec: the bytes recv(8192) returned to the receiver
    cx_json,        \* codec: what the receiver's json decode returned
    cx_msg,         \* codec: what parse_server_json returned
    ld_pc,          \* load_config called twice: how far the two calls have got
    ld_config,      \* the config file both calls are given
    ld_prior,       \* the config file the second object had loaded before
    ld_files,       \* whether the keyboard layout file exists at the first / second call
    ld_first,       \* the AnlasserVM object of the first call (fresh)
    ld_second       \* the AnlasserVM object of the second call (used before)

agentvars == <<registry, procs, next_pid, shutdown_flag, exit_code, pc, last_request,
          response, exch, hitlist, ps_idx, ps_caller, ps_result, clock, deadline,
          ps_targets, ps_term_sent, ps_kill_sent, ps_late, ever_started, up_since_stop,
          raw_client_data, n_sent, server_socket, socket_file>>

sockvars == <<server_socket, socket_file>>

connvars == <<raw_client_data, n_sent>>

vmvars == <<vm_pc, config, bhyve_command, vm_shutdown_flag, network_setup_done,
            bhyve_proc, n_popen, dev_vmm, tap, vm_result, wait_deadline, h_net,
            h_signals, h_shutdown, h_cleanup, h_flag_at_run>>

codecvars == <<cx_pc, cx_side, cx_data, cx_wire, cx_raw, cx_json, cx_msg>>

loadvars == <<ld_pc, ld_config, ld_prior, ld_files, ld_first, ld_second>>

fnvars == <<codecvars, loadvars>>

vars == <<agentvars, vmvars, fnvars>>

psvars == <<hitlist, ps_idx, ps_caller, ps_result, clock, deadline,
            ps_targets, ps_term_sent, ps_kill_sent, ps_late>>

\* ------------------------------------------------------- dict operations

Keys(d) == {d[i].name : i \in 1..Len(d)}

PidsOf(d) == {d[i].pid : i \in 1..Len(d)}

\* dict.get(name): the pid registered under name, or None
Get(d, name) ==
    IF name \in Keys(d)
    THEN d[CHOOSE i \in 1..Len(d) : d[i].name = name].pid
    ELSE NoPid

\* d[name] = pid: replace in place, or append a new key at the end
DictSet(d, name, pid) ==
    IF name \in Keys(d)
    THEN [i \in 1..Len(d) |-> IF d[i].name = name THEN [name |-> name, pid |-> pid] ELSE d[i]]
    ELSE Append(d, [name |-> name, pid |-> pid])

PopNothing(d, names) == d

\* d.pop(name) for every name of names
Pop(d, names) == SelectSeq(d, LAMBDA e : e.name \notin names)

\* ------------------------------------------------------------- responses

NoRequest == [action |-> "none"]

\* nothing was sent on the connection
NoResponse == [result |-> "no_response"]

NoExchange == [was_registered |-> FALSE, spawn |-> "none", reg_before |-> <<>>,
               pid_before |-> NoPid, up_before |-> FALSE]

\* response_data = dict()
EmptyData == [x \in {} |-> x]

\* _send_response: data["result"] = "success" if success else "failure"
SendResponse(success, data) ==
    [result |-> IF success THEN "success" ELSE "failure"] @@ data

GetVmStateDataAlwaysUp(d, vm_name) ==
    [vm_state |-> "vm_up", vm_pid |-> Get(d, vm_name)]

\* _process_client_get_vm_state_action: response_data
GetVmStateData(d, vm_name) ==
    IF Get(d, vm_name) /= NoPid
    THEN [vm_state |-> "vm_up", vm_pid |-> Get(d, vm_name)]
    ELSE [vm_state |-> "vm_down"]

ListVmsDataReversed(d) ==
    [vm_list |-> [i \in 1..Len(d) |->
        [vm_name |-> d[Len(d) + 1 - i].name, vm_controller_pid |-> d[Len(d) + 1 - i].pid]]]

\* _process_client_list_vms: response_data
ListVmsData(d) ==
    [vm_list |-> [i \in 1..Len(d) |->
        [vm_name |-> d[i].name, vm_controller_pid |-> d[i].pid]]]

\* ----------------------------------------------------------- _reap_zombies

ExitedAlways(p) == TRUE

\* proc.poll() is not None
Exited(p) == procs[p].st /= "running"

\* zombie_names = [name for name, proc in vm_dict.items() if proc.poll() is not None]
ZombieNames(vm_dict) == {vm_dict[i].name : i \in {j \in 1..Len(vm_dict) : Exited(vm_dict[j].pid)}}

ReapedRegistryDropsAll(vm_dict) == Pop(registry, Keys(vm_dict))

\* the registry after self._anlasser_watcher_procs.pop(name) for every zombie name
ReapedRegistry(vm_dict) == Pop(registry, ZombieNames(vm_dict))

\* the process table after vm_watcher_proc.communicate() on every popped handle
ReapedProcs(vm_dict) ==
    [p \in Pids |->
        IF \E i \in 1..Len(registry) :
              registry[i].pid = p /\ registry[i].name \in ZombieNames(vm_dict)
        THEN [procs[p] EXCEPT !.st = "reaped"]
        ELSE procs[p]]

\* ------------------------------------------------- _parallel_vm_shutdown

\* hitlist = {name: proc for name, proc in registry.items() if name in shutdown_names}
Hitlist(d, shutdown_names) == SelectSeq(d, LAMBDA e : e.name \in shutdown_names)

EmptyGuardOnEmpty(h) == Len(h) = 0

\* if len(hitlist) < 0: return False
EmptyGuard(h) == Len(h) < 0

LoopCondNoEmptyCheck(now, dl, h) == now < dl

\* while time() < deadline and len(hitlist) > 0
LoopCond(now, dl, h) == now < dl /\ Len(h) > 0

DelStoppedForgotten(h, stopped_vms) == h

\* for name in stopped_vms: del hitlist[name]
DelStopped(h, stopped_vms) == Pop(h, stopped_vms)

\* the deadline has passed and the loop has made its last poll
DeadlinePassed ==
    \/ pc \in {"ps_kill", "ps_final_reap", "ps_return"}
    \/ pc = "ps_loop" /\ ~LoopCond(clock, deadline, hitlist)

\* entering _parallel_vm_shutdown(shutdown_names, timeout) from caller
EnterCoordinator(shutdown_names, caller) ==
    /\ hitlist' = Hitlist(registry, shutdown_names)
    /\ ps_targets' = PidsOf(Hitlist(registry, shutdown_names))
    /\ ps_caller' = caller
    /\ ps_idx' = 1
    /\ ps_term_sent' = {}
    /\ ps_kill_sent' = {}
    /\ ps_late' = {}
    /\ clock' = 0
    /\ deadline' = 0
    /\ IF EmptyGuard(Hitlist(registry, shutdown_names))
       THEN ps_result' = FALSE /\ pc' = "ps_return"
       ELSE /\ ps_result' = TRUE
            /\ pc' = IF Len(Hitlist(registry, shutdown_names)) > 0 THEN "ps_term" ELSE "ps_deadline"

\* no coordinator run belongs to this exchange
NoCoordinator ==
    /\ hitlist' = <<>>
    /\ ps_targets' = {}
    /\ ps_caller' = "none"
    /\ ps_result' = TRUE
    /\ ps_idx' = 1
    /\ ps_term_sent' = {}
    /\ ps_kill_sent' = {}
    /\ ps_late' = {}
    /\ clock' = 0
    /\ deadline' = 0

\* ------------------------------------------------- the wire: request bytes

\* What recv() hands over is a sequence of pieces: the terminator byte "\n", a byte
\* that is no UTF-8, text that is no JSON, or the text of one JSON value.
NL == [t |-> "nl"]

XFF == [t |-> "xff"]

Garbage == [t |-> "garbage"]

JObject(v) == [t |-> "object", v |-> v]

JArray(len) == [t |-> "array", len |-> len]

JNull == [t |-> "null"]

\* Python's None
None == [t |-> "None"]

\* recv() returned b"" or timed out: _get_socket_data returns None
NoData == <<>>

\* the JSON objects clients send: the well-formed requests and the defective ones
RequestObjects ==
    {[action |-> "set_vm_state", vm_name |-> n, vm_target_state |-> ts] :
        n \in Names, ts \in {"up", "down"}}
    \cup {[action |-> "get_vm_state", vm_name |-> n] : n \in Names}
    \cup {[action |-> "list_vms"]}
    \cup {[action |-> "set_vm_state", vm_name |-> "A", vm_target_state |-> "sideways"],
          [action |-> "set_vm_state", vm_name |-> "A"],
          [action |-> "set_vm_state", vm_target_state |-> "up"],
          [action |-> "set_vm_state"],
          [action |-> "get_vm_state"],
          [action |-> "bogus"],
          [vm_name |-> "A"],
          [vm_name |-> "A", vm_target_state |-> "up"],
          [x \in {} |-> x]}

\* AnlasserClient.communicate: json.dumps(data) + "\n"
ClientEncode(data) == <<JObject(data), NL>>

\* the byte strings a connection may deliver
RawMessages ==
    {ClientEncode(o) : o \in RequestObjects}
    \cup {<<JArray(0), NL>>, <<JArray(1), NL>>, <<JNull, NL>>,
          <<NL>>, <<NL, JObject([action |-> "list_vms"])>>,
          <<JObject([action |-> "list_vms"])>>, <<JObject([action |-> "list_vms"]), NL,
          JObject([action |-> "list_vms"])>>,
          <<Garbage>>, <<Garbage, NL>>, <<XFF>>, <<XFF, NL>>, <<Garbage, XFF, NL>>,
          <<JObject([action |-> "list_vms"]), XFF, NL>>}

\* raw_client_data.find(b"\n") == -1
HasTerminatorAlways(raw) == TRUE

HasTerminator(raw) == \E i \in 1..Len(raw) : raw[i] = NL

\* raw_client_data.decode("utf-8") raises UnicodeDecodeError
DecodeFails(raw) == \E i \in 1..Len(raw) : raw[i] = XFF

\* json.loads skips the whitespace around the value
JsonText(raw) == SelectSeq(raw, LAMBDA b : b /= NL)

\* json.loads raises JSONDecodeError: no value, text that is no JSON, or extra data
JsonDecodeError(raw) == Len(JsonText(raw)) /= 1 \/ JsonText(raw)[1] = Garbage

\* json.loads: null becomes None, the other values their Python counterpart
JsonLoads(raw) == IF JsonText(raw)[1] = JNull THEN None ELSE JsonText(raw)[1]

\* _parse_client_message: the error_text it answers with, "none" when it parses
ParseError(raw) ==
    IF ~HasTerminator(raw) THEN "no_terminator"
    ELSE IF DecodeFails(raw) THEN "unicode_decode_error"
    ELSE IF JsonDecodeError(raw) THEN "json_decode_error"
    ELSE "none"

\* _parse_client_message: return parsed_data
ParseClientMessage(raw) == IF ParseError(raw) = "none" THEN JsonLoads(raw) ELSE None

\* if client_json:
Truthy(client_json) ==
    CASE client_json.t = "object" -> DOMAIN client_json.v /= {}
      [] client_json.t = "array" -> client_json.len > 0
      [] OTHER -> FALSE

\* the key whose lookup raises KeyError in _process_client_data, "none" if none does
MissingKey(v) ==
    IF "action" \notin DOMAIN v THEN "action"
    ELSE IF v.action = "set_vm_state" /\ "vm_name" \notin DOMAIN v THEN "vm_name"
    ELSE IF v.action = "set_vm_state" /\ "vm_target_state" \notin DOMAIN v
         THEN "vm_target_state"
    ELSE IF v.action = "get_vm_state" /\ "vm_name" \notin DOMAIN v THEN "vm_name"
    ELSE "none"

\* _process_client_data: where a parsed message ends up
Dispatch(client_json) ==
    IF ~Truthy(client_json) THEN "nothing_to_process"
    ELSE IF client_json.t /= "object" THEN "TypeError"
    ELSE IF MissingKey(client_json.v) /= "none" THEN "KeyError"
    ELSE IF client_json.v.action \in {"set_vm_state", "get_vm_state", "list_vms"}
         THEN client_json.v.action
    ELSE "requested_action_unknown"

\* recv() delivered raw and _process_client_data hands request to the handler of its action
Receives(raw, request) ==
    /\ ParseError(raw) = "none"
    /\ ParseClientMessage(raw) = JObject(request)
    /\ Dispatch(JObject(request)) = request.action

\* ------------------------------------------- the wire: sizes and responses

\* recv(8192), in AnlasserClient._get_socket_data and AnlasserAgent._get_socket_data
RecvSize == 8192

\* a VM name of LongNameLen characters
LongName == "long"

LongNameLen == 8192

\* the VM names messages are built with
CodecNames == Names \cup {LongName}

\* number of bytes of the strings that occur in messages
ByteLenOf ==
    [action |-> 6, vm_name |-> 7, vm_target_state |-> 15, result |-> 6, vm_state |-> 8,
     vm_pid |-> 6, vm_list |-> 7, vm_controller_pid |-> 17, error_type |-> 10,
     error_text |-> 10, error_extra_data |-> 16,
     set_vm_state |-> 12, get_vm_state |-> 12, list_vms |-> 8, up |-> 2, down |-> 4,
     success |-> 7, failure |-> 7, vm_up |-> 5, vm_down |-> 7,
     client_message_malformed |-> 24, no_terminator |-> 13, json_decode_error |-> 17,
     unicode_decode_error |-> 20, missing_mandatory_key |-> 21,
     requested_action_unknown |-> 24, target_vm_state_unknown |-> 23,
     bogus |-> 5, A |-> 1, B |-> 1, long |-> LongNameLen]

StrLen(str) == ByteLenOf[str]

\* decimal digits of a pid
Digits(n) == IF n < 10 THEN 1 ELSE IF n < 100 THEN 2 ELSE 3

\* error_extra_data: f"missing key: {e}" (the KeyError shows the key in quotes) or
\* f"requested action: {action}"
ExtraDataLen(x) ==
    IF x[1] = "missing key: " THEN 13 + 2 + StrLen(x[2]) ELSE 18 + StrLen(x[2])

\* json.dumps of a value that is no list, by the key it is stored under
ScalarLen(k, x) ==
    IF k \in {"vm_pid", "vm_controller_pid"} THEN Digits(x)
    ELSE IF k = "error_extra_data" THEN 2 + ExtraDataLen(x)
    ELSE 2 + StrLen(x)

\* json.dumps of {"vm_name": ..., "vm_controller_pid": ...}
EntryLen(e) ==
    2 + (StrLen("vm_name") + 4 + ScalarLen("vm_name", e.vm_name))
      + 2 + (StrLen("vm_controller_pid") + 4 + ScalarLen("vm_controller_pid", e.vm_controller_pid))

RECURSIVE ListBodyLen(_)
\* the entries of a list and the ", " between them
ListBodyLen(l) ==
    IF Len(l) = 0 THEN 0
    ELSE IF Len(l) = 1 THEN EntryLen(l[1])
    ELSE EntryLen(Head(l)) + 2 + ListBodyLen(Tail(l))

ValueLen(k, x) == IF k = "vm_list" THEN 2 + ListBodyLen(x) ELSE ScalarLen(k, x)

RECURSIVE FieldsLen(_, _)
\* "key": value for every key in ks, and the ", " between them
FieldsLen(v, ks) ==
    IF ks = {} THEN 0
    ELSE LET k == CHOOSE x \in ks : TRUE
         IN StrLen(k) + 4 + ValueLen(k, v[k])
            + (IF ks = {k} THEN 0 ELSE 2 + FieldsLen(v, ks \ {k}))

\* number of bytes json.dumps(v) gives for a mapping v
JsonLen(v) == 2 + FieldsLen(v, DOMAIN v)

\* number of bytes of one piece of a message
ByteLen(piece) ==
    CASE piece.t = "object" -> JsonLen(piece.v)
      [] piece.t = "array" -> 2 + piece.len
      [] piece.t = "null" -> 4
      [] OTHER -> 1

RECURSIVE RecvFrom(_, _)
\* the first room bytes of wire: a JSON text that is cut off is text that is no JSON
RecvFrom(wire, room) ==
    IF Len(wire) = 0 \/ room = 0 THEN <<>>
    ELSE IF ByteLen(Head(wire)) <= room
         THEN <<Head(wire)>> \o RecvFrom(Tail(wire), room - ByteLen(Head(wire)))
         ELSE <<Garbage>>

\* _get_socket_data: one recv(8192) on what the peer sent with sendall()
Recv(wire) == RecvFrom(wire, RecvSize)

\* _send_response: json.dumps(data) + "\n"
ServerEncode(data) == <<JObject(data), NL>>

\* the request mappings client code builds: AnlasserClientCli._set_vm_state,
\* _get_vm_state (which sets no vm_name), _list_vms, and get_vm_state with a vm_name
ClientRequests ==
    {[action |-> "set_vm_state", vm_target_state |-> ts, vm_name |-> n] :
        ts \in {"up", "down"}, n \in CodecNames}
    \cup {[action |-> "get_vm_state"], [action |-> "list_vms"]}
    \cup {[action |-> "get_vm_state", vm_name |-> n] : n \in CodecNames}

\* registries with up to two of the names, in insertion order
CodecRegistries ==
    {<<>>}
    \cup {<<[name |-> n, pid |-> 1]>> : n \in CodecNames}
    \cup {<<[name |-> q[1], pid |-> 1], [name |-> q[2], pid |-> 2]>> :
             q \in {r \in CodecNames \X CodecNames : r[1] /= r[2]}}

\* the response mappings the Agent builds and hands to _send_response
ServerResponses ==
    {SendResponse(TRUE, EmptyData)}
    \cup {SendResponse(TRUE, GetVmStateData(d, n)) : d \in CodecRegistries, n \in CodecNames}
    \cup {SendResponse(TRUE, ListVmsData(d)) : d \in CodecRegistries}
    \cup {SendResponse(FALSE, [error_type |-> "client_message_malformed", error_text |-> e]) :
             e \in {"no_terminator", "json_decode_error", "unicode_decode_error",
                    "target_vm_state_unknown"}}
    \cup {SendResponse(FALSE, [error_type |-> "client_message_malformed",
                               error_text |-> "missing_mandatory_key",
                               error_extra_data |-> <<"missing key: ", k>>]) :
             k \in {"action", "vm_name", "vm_target_state"}}
    \cup {SendResponse(FALSE, [error_type |-> "client_message_malformed",
                               error_text |-> "requested_action_unknown",
                               error_extra_data |-> <<"requested action: ", "bogus">>])}

\* AnlasserClient.load_json_from_server_msg: the parsed value, None for a message
\* without terminator, that is no UTF-8 or no JSON
LoadJsonFromServerMsg(raw) ==
    IF ~HasTerminator(raw) THEN None
    ELSE IF DecodeFails(raw) \/ JsonDecodeError(raw) THEN None
    ELSE JsonLoads(raw)

\* Python's False
PyFalse == [t |-> "False"]

\* dict.get(key, None)
DictGet(v, k) == IF k \in DOMAIN v THEN v[k] ELSE None

\* AnlasserClient.parse_server_json: False without a result, else a mapping of result
\* and vm_state / vm_pid (success) or error_type / error_text (failure)
ParseServerJson(server_json) ==
    IF server_json.t = "None" THEN PyFalse
    ELSE IF server_json.t /= "object" THEN [t |-> "AttributeError"]
    ELSE IF "result" \notin DOMAIN server_json.v THEN PyFalse
    ELSE IF server_json.v.result = "success"
         THEN JObject([result |-> "success",
                       vm_state |-> DictGet(server_json.v, "vm_state"),
                       vm_pid |-> DictGet(server_json.v, "vm_pid")])
    ELSE IF server_json.v.result = "failure"
         THEN JObject([result |-> "failure",
                       error_type |-> DictGet(server_json.v, "error_type"),
                       error_text |-> DictGet(server_json.v, "error_text")])
    ELSE JObject([result |-> server_json.v.result])

\* ------------------------------------------- the VM Watcher: its inputs

\* Hypervisor children one run() may spawn in one behaviour.
MaxChildren == 3

Children == 1..MaxChildren

\* load_config: the keys read with config["VM"][...], in the order they are read
MandatoryConfigKeys ==
    <<"name", "memory_mb", "cpu_sockets", "cpu_cores", "cpu_threads", "storage_path",
      "uefi_vars_storage_path", "tapdev", "bridge", "vnc_port">>

ConfigKeySet == {MandatoryConfigKeys[i] : i \in 1..Len(MandatoryConfigKeys)}

\* the value of the name key in the config files considered
VmName == "vm0"

\* load_config: the keys read with config["VM"].get(key, default)
OptionalConfigKeys == {"mac", "vnc_wait_connect", "vnc_kbd_layout", "iso_path"}

\* load_config: every key in the order the try block reads it
ReadOrder ==
    <<"name", "memory_mb", "cpu_sockets", "cpu_cores", "cpu_threads", "storage_path",
      "uefi_vars_storage_path", "mac", "tapdev", "bridge", "vnc_port", "vnc_wait_connect",
      "vnc_kbd_layout", "iso_path">>

AllConfigKeys == ConfigKeySet \cup OptionalConfigKeys

\* the value a key has in the config files considered, when the file holds the key
ConfigValue ==
    [name |-> VmName, memory_mb |-> "1024", cpu_sockets |-> "1", cpu_cores |-> "2",
     cpu_threads |-> "1", storage_path |-> "/dev/zvol/tank/vm0",
     uefi_vars_storage_path |-> "/vm/vm0_vars.fd", mac |-> "58:9c:fc:00:00:01",
     tapdev |-> "tap0", bridge |-> "bridge0", vnc_port |-> "5900",
     vnc_wait_connect |-> "yes", vnc_kbd_layout |-> "de", iso_path |-> "/iso/install.iso"]

\* A config file and the files around it: the mandatory keys it holds (none: the file
\* does not exist or has no [VM] section), the optional keys it holds, the stem of its
\* file name, whether the firmware-variables file it names exists, and whether the
\* keyboard layout file it names exists under /usr/share/bhyve/kbdlayout.
ConfigFiles(keysets, optionals) ==
    [keys : keysets,
     optional : optionals,
     stem : {VmName, "other"},
     uefi_vars_is_file : BOOLEAN,
     kbd_layout_is_file : BOOLEAN]

\* the config files one watcher is run on
Configs ==
    ConfigFiles({ConfigKeySet} \cup {ConfigKeySet \ {k} : k \in ConfigKeySet} \cup {{}},
                {{}, OptionalConfigKeys})

\* self.bhyve_command = None
NoCommand == <<>>

\* an attribute that is None
Unset == <<>>

\* AnlasserVM.__init__: the config attributes and the command are None
FreshVm == [fields |-> [k \in AllConfigKeys |-> Unset], bhyve_command |-> NoCommand]

\* load_config without its validation: never raises
LoadConfigErrorNever(cfg) == "none"

\* load_config: what makes it raise VMConfigError, "none" when it succeeds
LoadConfigError(cfg) ==
    IF \E i \in 1..Len(MandatoryConfigKeys) : MandatoryConfigKeys[i] \notin cfg.keys
    THEN "missing key"
    ELSE IF VmName /= cfg.stem THEN "file name / VM name mismatch"
    ELSE "none"

\* position in ReadOrder of the read that raises KeyError, Len(ReadOrder) + 1 if none does
FirstMissing(cfg) ==
    LET missing == {i \in 1..Len(ReadOrder) :
                       ReadOrder[i] \in ConfigKeySet /\ ReadOrder[i] \notin cfg.keys}
    IN IF missing = {} THEN Len(ReadOrder) + 1
       ELSE CHOOSE i \in missing : \A j \in missing : i <= j

\* config["VM"].get(key, default): "False" for vnc_wait_connect, None for the others
GetDefault(k) == IF k = "vnc_wait_connect" THEN <<"False">> ELSE Unset

ReadPosition(k) == CHOOSE i \in 1..Len(ReadOrder) : ReadOrder[i] = k

FieldsAfterLoadKeepsOptional(fields, cfg) ==
    [k \in AllConfigKeys |->
        IF ReadPosition(k) >= FirstMissing(cfg) THEN fields[k]
        ELSE IF k \in cfg.keys \cup cfg.optional THEN <<ConfigValue[k]>>
        ELSE IF fields[k] /= Unset THEN fields[k]
        ELSE GetDefault(k)]

\* load_config, the try block: every attribute read before a KeyError is assigned, from
\* the file or from the default of get(); the others keep what they had
FieldsAfterLoad(fields, cfg) ==
    [k \in AllConfigKeys |->
        IF ReadPosition(k) >= FirstMissing(cfg) THEN fields[k]
        ELSE IF k \in cfg.keys \cup cfg.optional THEN <<ConfigValue[k]>>
        ELSE GetDefault(k)]

\* an attribute inside an f-string: its text, "None" for None
Str(attr) == IF attr = Unset THEN "None" ELSE attr[1]

\* tap_config = f"{self.tapdev},mac={self.mac}" if self.mac else f"{self.tapdev}"
TapConfig(f) ==
    IF f.mac /= Unset THEN <<Str(f.tapdev), ",mac=", Str(f.mac)>> ELSE <<Str(f.tapdev)>>

\* vnc_wait_parameter
VncWaitParameter(f) ==
    IF Str(f.vnc_wait_connect) \in {"y", "yes", "true", "on", "1"} THEN ",wait" ELSE ""

\* load_config: the argument vector built from the attributes; each component is the
\* sequence of the pieces its f-string puts together. "-K" is added only if the
\* keyboard layout file exists, the VM name is the last component.
BuildCommand(f, kbd_layout_is_file) ==
    << <<"bhyve">>, <<"-P">>, <<"-A">>, <<"-D">>, <<"-H">>, <<"-w">>,
       <<"-c">>,
       <<"sockets=", Str(f.cpu_sockets), ",cores=", Str(f.cpu_cores), ",threads=",
         Str(f.cpu_threads)>>,
       <<"-m">>, <<Str(f.memory_mb), "M">>,
       <<"-u">>,
       <<"-s">>, <<"0,hostbridge">>,
       <<"-s">>, <<"31,lpc">>,
       <<"-s">>, <<"4,nvme,", Str(f.storage_path), ",sectsz=4096">>,
       <<"-s">>, (<<"5,virtio-net,">> \o TapConfig(f)),
       <<"-s">>, <<"6,fbuf,tcp=127.0.0.1:", Str(f.vnc_port), ",w=1600,h=900",
                   VncWaitParameter(f)>>,
       <<"-s">>, <<"8,xhci,tablet">>,
       <<"-s">>, <<"9,virtio-rnd">>,
       <<"-l">>,
       <<"bootrom,/usr/local/share/uefi-firmware/BHYVE_UEFI.fd,",
         Str(f.uefi_vars_storage_path)>> >>
    \o (IF f.vnc_kbd_layout /= Unset /\ kbd_layout_is_file
        THEN << <<"-K">>, <<"/usr/share/bhyve/kbdlayout/", Str(f.vnc_kbd_layout)>> >>
        ELSE <<>>)
    \o (IF f.iso_path /= Unset THEN << <<"-s">>, <<"3,ahci-cd,", Str(f.iso_path)>> >> ELSE <<>>)
    \o << <<Str(f.name)>> >>

\* load_config(config_path) on the object vm: the object afterwards. When it raises,
\* bhyve_command is what it was.
LoadConfig(vm, cfg) ==
    [fields |-> FieldsAfterLoad(vm.fields, cfg),
     bhyve_command |->
        IF LoadConfigError(cfg) = "none"
        THEN BuildCommand(FieldsAfterLoad(vm.fields, cfg), cfg.kbd_layout_is_file)
        ELSE vm.bhyve_command]

\* load_config on a fresh object: the argument vector
BhyveCommand(cfg) == LoadConfig(FreshVm, cfg).bhyve_command

\* man bhyve, as quoted in run(): 0 reboot, 1 power off, 2 halted, 3 triple fault, 4 error
BhyveExitCodes == 0..4

KilledAsPowerOff == {1}

\* returncode of a child ended by kill(): Popen reports -SIGKILL, the test's fake 137
KilledReturnCodes == {0 - 9, 137}

NoResult == [by |-> "none", outcome |-> "none"]

\* AnlasserVM.__init__, and the world before the first child
VmConstructed ==
    /\ vm_pc = "constructed"
    /\ config \in Configs
    /\ bhyve_command = NoCommand
    /\ vm_shutdown_flag = FALSE
    /\ network_setup_done = FALSE
    /\ bhyve_proc = [st |-> "none"]
    /\ n_popen = 0
    /\ dev_vmm = FALSE
    /\ tap = "absent"
    /\ vm_result = NoResult
    /\ wait_deadline = 0
    /\ h_net = [k \in Children |-> "unborn"]
    /\ h_signals = [k \in Children |-> {}]
    /\ h_shutdown = [k \in Children |-> "none"]
    /\ h_cleanup = <<>>
    /\ h_flag_at_run = "not run"

\* no watcher is looked at
VmParked ==
    /\ vm_pc = "parked"
    /\ config = [keys |-> {}, optional |-> {}, stem |-> "other",
                 uefi_vars_is_file |-> FALSE, kbd_layout_is_file |-> FALSE]
    /\ bhyve_command = NoCommand
    /\ vm_shutdown_flag = FALSE
    /\ network_setup_done = FALSE
    /\ bhyve_proc = [st |-> "none"]
    /\ n_popen = 0
    /\ dev_vmm = FALSE
    /\ tap = "absent"
    /\ vm_result = NoResult
    /\ wait_deadline = 0
    /\ h_net = [k \in Children |-> "unborn"]
    /\ h_signals = [k \in Children |-> {}]
    /\ h_shutdown = [k \in Children |-> "none"]
    /\ h_cleanup = <<>>
    /\ h_flag_at_run = "not run"

\* ------------------------------------------------------------------ Init

AgentInit ==
    /\ registry = <<>>
    /\ procs = [p \in Pids |-> [name |-> "none", st |-> "unborn"]]
    /\ next_pid = 1
    /\ shutdown_flag = FALSE
    /\ exit_code = InitExitCode
    /\ pc = "loop"
    /\ last_request = NoRequest
    /\ response = NoResponse
    /\ exch = NoExchange
    /\ hitlist = <<>>
    /\ ps_idx = 1
    /\ ps_caller = "none"
    /\ ps_result = TRUE
    /\ clock = 0
    /\ deadline = 0
    /\ ps_targets = {}
    /\ ps_term_sent = {}
    /\ ps_kill_sent = {}
    /\ ps_late = {}
    /\ ever_started = {}
    /\ up_since_stop = {}
    /\ raw_client_data = NoData
    /\ n_sent = 0
    /\ server_socket = "open"
    /\ socket_file = TRUE

\* no message is followed through the codec
CodecParked ==
    /\ cx_pc = "parked"
    /\ cx_side = "none"
    /\ cx_data = [result |-> "none"]
    /\ cx_wire = NoData
    /\ cx_raw = NoData
    /\ cx_json = None
    /\ cx_msg = None

\* no pair of load_config calls is looked at
LoadParked ==
    /\ ld_pc = "parked"
    /\ ld_config = [keys |-> {}, optional |-> {}, stem |-> "other",
                    uefi_vars_is_file |-> FALSE, kbd_layout_is_file |-> FALSE]
    /\ ld_prior = ld_config
    /\ ld_files = [first |-> FALSE, second |-> FALSE]
    /\ ld_first = FreshVm
    /\ ld_second = FreshVm

\* the Agent alone
Init == AgentInit /\ VmParked /\ CodecParked /\ LoadParked

\* one VM Watcher alone
InitVM == AgentInit /\ VmConstructed /\ CodecParked /\ LoadParked

\* ----------------------------------------------------------- environment

ExitSignalHandlerRaises ==
    /\ pc /= "exited"
    /\ shutdown_flag = FALSE
    /\ shutdown_flag' = TRUE
    /\ exit_code' = 0
    /\ pc' = "run_returned"
    /\ UNCHANGED <<registry, procs, next_pid, last_request, response, exch, psvars,
                   ever_started, up_since_stop>>
    /\ UNCHANGED connvars
    /\ UNCHANGED <<sockvars, vmvars, fnvars>>

\* agent_cli.exit_signal_handler: SIGTERM / SIGINT delivered to the Agent
ExitSignalHandler ==
    /\ pc /= "exited"
    /\ shutdown_flag = FALSE
    /\ shutdown_flag' = TRUE
    /\ UNCHANGED <<registry, procs, next_pid, exit_code, pc, last_request, response,
                   exch, psvars, ever_started, up_since_stop>>
    /\ UNCHANGED connvars
    /\ UNCHANGED <<sockvars, vmvars, fnvars>>

\* a watcher process ends: on its own, after SIGTERM, or after SIGKILL
WatcherExit(p) ==
    /\ procs[p].st = "running"
    /\ procs' = [procs EXCEPT ![p].st = "exited"]
    /\ ps_late' = IF p \in ps_targets /\ DeadlinePassed THEN ps_late \cup {p} ELSE ps_late
    /\ UNCHANGED <<registry, next_pid, shutdown_flag, exit_code, pc, last_request,
                   response, exch, hitlist, ps_idx, ps_caller, ps_result, clock, deadline,
                   ps_targets, ps_term_sent, ps_kill_sent, ever_started, up_since_stop>>
    /\ UNCHANGED connvars
    /\ UNCHANGED <<sockvars, vmvars, fnvars>>

\* ------------------------------------------------------------- run(): loop

\* what the dispatch of a request about vm_name finds
Exchange(vm_name, spawn) ==
    [was_registered |-> vm_name \in Keys(registry), spawn |-> spawn,
     reg_before |-> registry, pid_before |-> next_pid,
     up_before |-> vm_name \in up_since_stop]

LoopCheckKeepsExitCode ==
    /\ pc = "loop"
    /\ last_request' = NoRequest
    /\ response' = NoResponse
    /\ exch' = NoExchange
    /\ NoCoordinator
    /\ pc' = IF shutdown_flag THEN "run_returned" ELSE "accept"
    /\ UNCHANGED <<registry, procs, next_pid, shutdown_flag, exit_code, ever_started,
                   up_since_stop>>
    /\ raw_client_data' = NoData
    /\ n_sent' = 0
    /\ UNCHANGED <<sockvars, vmvars, fnvars>>

\* while self.shutdown_flag is False: self._client_socket = None
LoopCheck ==
    /\ pc = "loop"
    /\ last_request' = NoRequest
    /\ response' = NoResponse
    /\ exch' = NoExchange
    /\ NoCoordinator
    /\ IF shutdown_flag
       THEN pc' = "run_returned" /\ exit_code' = 0
       ELSE pc' = "accept" /\ UNCHANGED exit_code
    /\ UNCHANGED <<registry, procs, next_pid, shutdown_flag, ever_started, up_since_stop>>
    /\ raw_client_data' = NoData
    /\ n_sent' = 0
    /\ UNCHANGED <<sockvars, vmvars, fnvars>>

AcceptTimeoutNoReap ==
    /\ pc = "accept"
    /\ pc' = "loop"
    /\ UNCHANGED <<registry, procs, next_pid, shutdown_flag, exit_code, last_request,
                   response, exch, psvars, ever_started, up_since_stop>>
    /\ UNCHANGED connvars
    /\ UNCHANGED <<sockvars, vmvars, fnvars>>

\* except socket.timeout: self._reap_zombies(self._anlasser_watcher_procs)
AcceptTimeout ==
    /\ pc = "accept"
    /\ registry' = ReapedRegistry(registry)
    /\ procs' = ReapedProcs(registry)
    /\ pc' = "loop"
    /\ UNCHANGED <<next_pid, shutdown_flag, exit_code, last_request, response, exch,
                   psvars, ever_started, up_since_stop>>
    /\ UNCHANGED connvars
    /\ UNCHANGED <<sockvars, vmvars, fnvars>>

StartVmSpawnsAlways(d, vm_name) == TRUE

\* _start_vm: vm_proc = self._anlasser_watcher_procs.get(vm_name) is None
StartVmSpawns(d, vm_name) == Get(d, vm_name) = NoPid

\* set_vm_state, vm_target_state = "up": _start_vm and the response.
\* spawn_ok = FALSE: subprocess.Popen raises; nothing in run() catches it but the
\* outer "except Exception", so no response is sent and run() returns.
ClientSetVmStateUp(vm_name, spawn_ok) ==
    /\ pc = "accept"
    /\ last_request' = [action |-> "set_vm_state", vm_name |-> vm_name, vm_target_state |-> "up"]
    /\ NoCoordinator
    /\ IF ~StartVmSpawns(registry, vm_name)
       THEN /\ spawn_ok
            /\ exch' = Exchange(vm_name, "none")
            /\ response' = SendResponse(TRUE, EmptyData)
            /\ up_since_stop' = up_since_stop \cup {vm_name}
            /\ pc' = "loop"
            /\ UNCHANGED <<registry, procs, next_pid, exit_code, ever_started>>
       ELSE IF spawn_ok
       THEN /\ next_pid <= MaxSpawns
            /\ exch' = Exchange(vm_name, "ok")
            /\ procs' = [procs EXCEPT ![next_pid] = [name |-> vm_name, st |-> "running"]]
            /\ registry' = DictSet(registry, vm_name, next_pid)
            /\ next_pid' = next_pid + 1
            /\ ever_started' = ever_started \cup {vm_name}
            /\ up_since_stop' = up_since_stop \cup {vm_name}
            /\ response' = SendResponse(TRUE, EmptyData)
            /\ pc' = "loop"
            /\ UNCHANGED exit_code
       ELSE /\ exch' = Exchange(vm_name, "failed")
            /\ response' = NoResponse
            /\ exit_code' = 0
            /\ pc' = "run_returned"
            /\ UNCHANGED <<registry, procs, next_pid, ever_started, up_since_stop>>
    /\ UNCHANGED shutdown_flag
    /\ \E raw \in RawMessages : Receives(raw, last_request') /\ raw_client_data' = raw
    /\ n_sent' = IF response' = NoResponse THEN 0 ELSE 1
    /\ UNCHANGED <<sockvars, vmvars, fnvars>>

StopAbsentFails == FALSE

\* _stop_vm, name not in the registry: success = True
StopAbsentResult == TRUE

\* set_vm_state, vm_target_state = "down": _stop_vm; the response follows the coordinator
ClientSetVmStateDown(vm_name) ==
    /\ pc = "accept"
    /\ last_request' = [action |-> "set_vm_state", vm_name |-> vm_name, vm_target_state |-> "down"]
    /\ exch' = Exchange(vm_name, "none")
    /\ up_since_stop' = up_since_stop \ {vm_name}
    /\ IF vm_name \in Keys(registry)
       THEN /\ EnterCoordinator({vm_name}, "stop")
            /\ response' = NoResponse
       ELSE /\ NoCoordinator
            /\ response' = SendResponse(StopAbsentResult, EmptyData)
            /\ pc' = "loop"
    /\ UNCHANGED <<registry, procs, next_pid, shutdown_flag, exit_code, ever_started>>
    /\ \E raw \in RawMessages : Receives(raw, last_request') /\ raw_client_data' = raw
    /\ n_sent' = IF response' = NoResponse THEN 0 ELSE 1
    /\ UNCHANGED <<sockvars, vmvars, fnvars>>

\* get_vm_state: _process_client_get_vm_state_action
ClientGetVmState(vm_name) ==
    /\ pc = "accept"
    /\ last_request' = [action |-> "get_vm_state", vm_name |-> vm_name]
    /\ exch' = Exchange(vm_name, "none")
    /\ NoCoordinator
    /\ response' = SendResponse(TRUE, GetVmStateData(registry, vm_name))
    /\ pc' = "loop"
    /\ UNCHANGED <<registry, procs, next_pid, shutdown_flag, exit_code, ever_started,
                   up_since_stop>>
    /\ \E raw \in RawMessages : Receives(raw, last_request') /\ raw_client_data' = raw
    /\ n_sent' = IF response' = NoResponse THEN 0 ELSE 1
    /\ UNCHANGED <<sockvars, vmvars, fnvars>>

ClientListVmsReaps ==
    /\ pc = "accept"
    /\ last_request' = [action |-> "list_vms"]
    /\ exch' = [NoExchange EXCEPT !.reg_before = registry, !.pid_before = next_pid]
    /\ NoCoordinator
    /\ registry' = ReapedRegistry(registry)
    /\ procs' = ReapedProcs(registry)
    /\ response' = SendResponse(TRUE, ListVmsData(registry'))
    /\ pc' = "loop"
    /\ UNCHANGED <<next_pid, shutdown_flag, exit_code, ever_started, up_since_stop>>
    /\ \E raw \in RawMessages : Receives(raw, last_request') /\ raw_client_data' = raw
    /\ n_sent' = IF response' = NoResponse THEN 0 ELSE 1
    /\ UNCHANGED <<sockvars, vmvars, fnvars>>

\* list_vms: _process_client_list_vms
ClientListVms ==
    /\ pc = "accept"
    /\ last_request' = [action |-> "list_vms"]
    /\ exch' = [NoExchange EXCEPT !.reg_before = registry, !.pid_before = next_pid]
    /\ NoCoordinator
    /\ response' = SendResponse(TRUE, ListVmsData(registry))
    /\ pc' = "loop"
    /\ UNCHANGED <<registry, procs, next_pid, shutdown_flag, exit_code, ever_started,
                   up_since_stop>>
    /\ \E raw \in RawMessages : Receives(raw, last_request') /\ raw_client_data' = raw
    /\ n_sent' = IF response' = NoResponse THEN 0 ELSE 1
    /\ UNCHANGED <<sockvars, vmvars, fnvars>>

\* what the handler of a request that names no VM finds
Snapshot == [NoExchange EXCEPT !.reg_before = registry, !.pid_before = next_pid]

\* client_data = self._get_socket_data() is None: self._client_socket.close()
ClientNoData ==
    /\ pc = "accept"
    /\ raw_client_data' = NoData
    /\ n_sent' = 0
    /\ pc' = "loop"
    /\ UNCHANGED <<registry, procs, next_pid, shutdown_flag, exit_code, last_request,
                   response, exch, psvars, ever_started, up_since_stop>>
    /\ UNCHANGED <<sockvars, vmvars, fnvars>>

\* _parse_client_message answers a message it cannot parse; parsed_data stays None
ClientMalformed(raw) ==
    /\ pc = "accept"
    /\ ParseError(raw) /= "none"
    /\ raw_client_data' = raw
    /\ exch' = Snapshot
    /\ response' = SendResponse(FALSE, [error_type |-> "client_message_malformed",
                                        error_text |-> ParseError(raw)])
    /\ n_sent' = 1
    /\ ~Truthy(ParseClientMessage(raw))
    /\ pc' = "loop"
    /\ UNCHANGED <<registry, procs, next_pid, shutdown_flag, exit_code, last_request, psvars, ever_started, up_since_stop>>
    /\ UNCHANGED <<sockvars, vmvars, fnvars>>

\* if client_json: is false for a message that parsed: only the log line
\* "client_json is None, nothing to process"; no response, the socket stays open
ClientNothingToProcess(raw) ==
    /\ pc = "accept"
    /\ ParseError(raw) = "none"
    /\ Dispatch(ParseClientMessage(raw)) = "nothing_to_process"
    /\ raw_client_data' = raw
    /\ exch' = Snapshot
    /\ n_sent' = 0
    /\ pc' = "loop"
    /\ UNCHANGED <<registry, procs, next_pid, shutdown_flag, exit_code, last_request,
                   response, psvars, ever_started, up_since_stop>>
    /\ UNCHANGED <<sockvars, vmvars, fnvars>>

\* client_json["action"] on a value that is no dict raises TypeError: not caught by
\* "except KeyError", caught by the "except Exception" around the loop; run() returns
ClientTypeError(raw) ==
    /\ pc = "accept"
    /\ ParseError(raw) = "none"
    /\ Dispatch(ParseClientMessage(raw)) = "TypeError"
    /\ raw_client_data' = raw
    /\ exch' = Snapshot
    /\ n_sent' = 0
    /\ exit_code' = 0
    /\ pc' = "run_returned"
    /\ UNCHANGED <<registry, procs, next_pid, shutdown_flag, last_request,
                   response, psvars, ever_started, up_since_stop>>
    /\ UNCHANGED <<sockvars, vmvars, fnvars>>

\* except KeyError as e: missing_mandatory_key
ClientMissingKey(raw) ==
    /\ pc = "accept"
    /\ ParseError(raw) = "none"
    /\ Dispatch(ParseClientMessage(raw)) = "KeyError"
    /\ raw_client_data' = raw
    /\ exch' = Snapshot
    /\ response' = SendResponse(FALSE,
           [error_type |-> "client_message_malformed",
            error_text |-> "missing_mandatory_key",
            error_extra_data |-> <<"missing key: ", MissingKey(ParseClientMessage(raw).v)>>])
    /\ n_sent' = 1
    /\ pc' = "loop"
    /\ UNCHANGED <<registry, procs, next_pid, shutdown_flag, exit_code, last_request, psvars, ever_started, up_since_stop>>
    /\ UNCHANGED <<sockvars, vmvars, fnvars>>

\* else: requested_action_unknown
ClientUnknownAction(raw) ==
    /\ pc = "accept"
    /\ ParseError(raw) = "none"
    /\ Dispatch(ParseClientMessage(raw)) = "requested_action_unknown"
    /\ raw_client_data' = raw
    /\ exch' = Snapshot
    /\ response' = SendResponse(FALSE,
           [error_type |-> "client_message_malformed",
            error_text |-> "requested_action_unknown",
            error_extra_data |-> <<"requested action: ", ParseClientMessage(raw).v.action>>])
    /\ n_sent' = 1
    /\ pc' = "loop"
    /\ UNCHANGED <<registry, procs, next_pid, shutdown_flag, exit_code, last_request, psvars, ever_started, up_since_stop>>
    /\ UNCHANGED <<sockvars, vmvars, fnvars>>

\* _process_client_set_vm_state_action, vm_target_state neither "up" nor "down"
ClientUnknownTargetState(raw) ==
    /\ pc = "accept"
    /\ ParseError(raw) = "none"
    /\ Dispatch(ParseClientMessage(raw)) = "set_vm_state"
    /\ ParseClientMessage(raw).v.vm_target_state \notin {"up", "down"}
    /\ raw_client_data' = raw
    /\ exch' = Snapshot
    /\ response' = SendResponse(FALSE, [error_type |-> "client_message_malformed",
                                        error_text |-> "target_vm_state_unknown"])
    /\ n_sent' = 1
    /\ pc' = "loop"
    /\ UNCHANGED <<registry, procs, next_pid, shutdown_flag, exit_code, last_request, psvars, ever_started, up_since_stop>>
    /\ UNCHANGED <<sockvars, vmvars, fnvars>>

\* atexit: _shutdown(timeout=330) once run() has returned: self._server_socket.close()
ShutdownClose ==
    /\ pc = "run_returned"
    /\ server_socket' = "closed"
    /\ pc' = "sd_unlink"
    /\ UNCHANGED <<registry, procs, next_pid, shutdown_flag, exit_code, last_request,
                   response, exch, psvars, ever_started, up_since_stop, socket_file>>
    /\ UNCHANGED connvars
    /\ UNCHANGED <<vmvars, fnvars>>

ShutdownUnlinkKeepsFile ==
    /\ pc = "sd_unlink"
    /\ pc' = "sd_drain"
    /\ UNCHANGED <<registry, procs, next_pid, shutdown_flag, exit_code, last_request,
                   response, exch, psvars, ever_started, up_since_stop, sockvars>>
    /\ UNCHANGED connvars
    /\ UNCHANGED <<vmvars, fnvars>>

\* _shutdown: if self._socket_path.exists(): self._socket_path.unlink()
ShutdownUnlink ==
    /\ pc = "sd_unlink"
    /\ socket_file' = FALSE
    /\ pc' = "sd_drain"
    /\ UNCHANGED <<registry, procs, next_pid, shutdown_flag, exit_code, last_request,
                   response, exch, psvars, ever_started, up_since_stop, server_socket>>
    /\ UNCHANGED connvars
    /\ UNCHANGED <<vmvars, fnvars>>

\* _shutdown: if len(self._anlasser_watcher_procs) > 0: self._parallel_vm_shutdown(...)
Shutdown ==
    /\ pc = "sd_drain"
    /\ IF Len(registry) > 0
       THEN EnterCoordinator(Keys(registry), "shutdown")
       ELSE pc' = "exited" /\ UNCHANGED psvars
    /\ UNCHANGED <<registry, procs, next_pid, shutdown_flag, exit_code, last_request,
                   response, exch, ever_started, up_since_stop>>
    /\ UNCHANGED connvars
    /\ UNCHANGED <<sockvars, vmvars, fnvars>>

\* ------------------------------------------- _parallel_vm_shutdown: steps

PsTerminateThenKill ==
    /\ pc = "ps_term"
    /\ ps_term_sent' = ps_term_sent \cup {hitlist[ps_idx].pid}
    /\ ps_kill_sent' = ps_kill_sent \cup {hitlist[ps_idx].pid}
    /\ IF ps_idx < Len(hitlist)
       THEN ps_idx' = ps_idx + 1 /\ pc' = "ps_term"
       ELSE ps_idx' = 1 /\ pc' = "ps_deadline"
    /\ UNCHANGED <<registry, procs, next_pid, shutdown_flag, exit_code, last_request,
                   response, exch, hitlist, ps_caller, ps_result, clock, deadline,
                   ps_targets, ps_late, ever_started, up_since_stop>>
    /\ UNCHANGED connvars
    /\ UNCHANGED <<sockvars, vmvars, fnvars>>

\* for vm_name, vm_proc in hitlist.items(): vm_proc.terminate()   (one target per step)
PsTerminate ==
    /\ pc = "ps_term"
    /\ ps_term_sent' = ps_term_sent \cup {hitlist[ps_idx].pid}
    /\ IF ps_idx < Len(hitlist)
       THEN ps_idx' = ps_idx + 1 /\ pc' = "ps_term"
       ELSE ps_idx' = 1 /\ pc' = "ps_deadline"
    /\ UNCHANGED <<registry, procs, next_pid, shutdown_flag, exit_code, last_request,
                   response, exch, hitlist, ps_caller, ps_result, clock, deadline,
                   ps_targets, ps_kill_sent, ps_late, ever_started, up_since_stop>>
    /\ UNCHANGED connvars
    /\ UNCHANGED <<sockvars, vmvars, fnvars>>

\* deadline = time() + timeout
PsDeadline ==
    /\ pc = "ps_deadline"
    /\ deadline' = clock + timeout
    /\ pc' = "ps_loop"
    /\ UNCHANGED <<registry, procs, next_pid, shutdown_flag, exit_code, last_request,
                   response, exch, hitlist, ps_idx, ps_caller, ps_result, clock,
                   ps_targets, ps_term_sent, ps_kill_sent, ps_late, ever_started,
                   up_since_stop>>
    /\ UNCHANGED connvars
    /\ UNCHANGED <<sockvars, vmvars, fnvars>>

PsLoopReturnsOnFlag ==
    /\ pc = "ps_loop"
    /\ pc' = IF shutdown_flag THEN "ps_return"
             ELSE IF LoopCond(clock, deadline, hitlist) THEN "ps_sleep"
             ELSE IF Len(hitlist) > 0 THEN "ps_kill" ELSE "ps_final_reap"
    /\ UNCHANGED <<registry, procs, next_pid, shutdown_flag, exit_code, last_request,
                   response, exch, psvars, ever_started, up_since_stop>>
    /\ UNCHANGED connvars
    /\ UNCHANGED <<sockvars, vmvars, fnvars>>

\* the while test; leaving the loop leads to the kill loop over what is left
PsLoop ==
    /\ pc = "ps_loop"
    /\ pc' = IF LoopCond(clock, deadline, hitlist) THEN "ps_sleep"
             ELSE IF Len(hitlist) > 0 THEN "ps_kill" ELSE "ps_final_reap"
    /\ UNCHANGED <<registry, procs, next_pid, shutdown_flag, exit_code, last_request,
                   response, exch, psvars, ever_started, up_since_stop>>
    /\ UNCHANGED connvars
    /\ UNCHANGED <<sockvars, vmvars, fnvars>>

\* sleep(1)
PsSleep ==
    /\ pc = "ps_sleep"
    /\ clock' = clock + 1
    /\ pc' = "ps_reap"
    /\ UNCHANGED <<registry, procs, next_pid, shutdown_flag, exit_code, last_request,
                   response, exch, hitlist, ps_idx, ps_caller, ps_result, deadline,
                   ps_targets, ps_term_sent, ps_kill_sent, ps_late, ever_started,
                   up_since_stop>>
    /\ UNCHANGED connvars
    /\ UNCHANGED <<sockvars, vmvars, fnvars>>

\* stopped_vms = self._reap_zombies(hitlist); for name in stopped_vms: del hitlist[name]
PsReap ==
    /\ pc = "ps_reap"
    /\ registry' = ReapedRegistry(hitlist)
    /\ procs' = ReapedProcs(hitlist)
    /\ hitlist' = DelStopped(hitlist, ZombieNames(hitlist))
    /\ pc' = "ps_loop"
    /\ UNCHANGED <<next_pid, shutdown_flag, exit_code, last_request, response, exch,
                   ps_idx, ps_caller, ps_result, clock, deadline, ps_targets,
                   ps_term_sent, ps_kill_sent, ps_late, ever_started, up_since_stop>>
    /\ UNCHANGED connvars
    /\ UNCHANGED <<sockvars, vmvars, fnvars>>

\* for vm_name, vm_proc in hitlist.items(): vm_proc.kill()   (one target per step)
PsKill ==
    /\ pc = "ps_kill"
    /\ ps_kill_sent' = ps_kill_sent \cup {hitlist[ps_idx].pid}
    /\ IF ps_idx < Len(hitlist)
       THEN ps_idx' = ps_idx + 1 /\ pc' = "ps_kill"
       ELSE ps_idx' = 1 /\ pc' = "ps_final_reap"
    /\ UNCHANGED <<registry, procs, next_pid, shutdown_flag, exit_code, last_request,
                   response, exch, hitlist, ps_caller, ps_result, clock, deadline,
                   ps_targets, ps_term_sent, ps_late, ever_started, up_since_stop>>
    /\ UNCHANGED connvars
    /\ UNCHANGED <<sockvars, vmvars, fnvars>>

\* self._reap_zombies(hitlist) after the kill loop: only handles whose poll() already
\* reports the exit are popped and reaped
PsFinalReap ==
    /\ pc = "ps_final_reap"
    /\ registry' = ReapedRegistry(hitlist)
    /\ procs' = ReapedProcs(hitlist)
    /\ pc' = "ps_return"
    /\ UNCHANGED <<next_pid, shutdown_flag, exit_code, last_request, response, exch,
                   psvars, ever_started, up_since_stop>>
    /\ UNCHANGED connvars
    /\ UNCHANGED <<sockvars, vmvars, fnvars>>

\* return True: back in _stop_vm (the response is sent), in _shutdown (the process
\* ends) or in whoever else called the coordinator
PsReturn ==
    /\ pc = "ps_return"
    /\ IF ps_caller = "stop"
       THEN response' = SendResponse(ps_result, EmptyData) /\ pc' = "loop"
       ELSE /\ pc' = (IF ps_caller = "shutdown" THEN "exited" ELSE "returned")
            /\ UNCHANGED response
    /\ UNCHANGED <<registry, procs, next_pid, shutdown_flag, exit_code, last_request,
                   exch, psvars, ever_started, up_since_stop>>
    /\ n_sent' = IF ps_caller = "stop" THEN n_sent + 1 ELSE n_sent
    /\ UNCHANGED raw_client_data
    /\ UNCHANGED <<sockvars, vmvars, fnvars>>

Next ==
    \/ ExitSignalHandler
    \/ \E p \in Pids : WatcherExit(p)
    \/ LoopCheck
    \/ AcceptTimeout
    \/ \E vm_name \in Names, spawn_ok \in BOOLEAN : ClientSetVmStateUp(vm_name, spawn_ok)
    \/ \E vm_name \in Names : ClientSetVmStateDown(vm_name)
    \/ \E vm_name \in Names : ClientGetVmState(vm_name)
    \/ ClientListVms
    \/ ClientNoData
    \/ \E raw \in RawMessages : ClientMalformed(raw)
    \/ \E raw \in RawMessages : ClientNothingToProcess(raw)
    \/ \E raw \in RawMessages : ClientTypeError(raw)
    \/ \E raw \in RawMessages : ClientMissingKey(raw)
    \/ \E raw \in RawMessages : ClientUnknownAction(raw)
    \/ \E raw \in RawMessages : ClientUnknownTargetState(raw)
    \/ ShutdownClose
    \/ ShutdownUnlink
    \/ Shutdown
    \/ PsTerminate
    \/ PsDeadline
    \/ PsLoop
    \/ PsSleep
    \/ PsReap
    \/ PsKill
    \/ PsFinalReap
    \/ PsReturn

Spec == Init /\ [][Next]_vars

\* The Agent's single thread keeps running: the loop test, the atexit handler and
\* every step of the coordinator are taken once they are due. accept() waits at most
\* _poll_rate (0.2 s, settimeout in run()), so an Agent that keeps coming back to
\* accept() sees it time out again and again unless a client connects within every
\* single interval forever.
AgentFairness ==
    /\ WF_vars(LoopCheck)
    /\ WF_vars(ShutdownClose)
    /\ WF_vars(ShutdownUnlink)
    /\ WF_vars(Shutdown)
    /\ WF_vars(PsTerminate)
    /\ WF_vars(PsDeadline)
    /\ WF_vars(PsLoop)
    /\ WF_vars(PsSleep)
    /\ WF_vars(PsReap)
    /\ WF_vars(PsKill)
    /\ WF_vars(PsFinalReap)
    /\ WF_vars(PsReturn)
    /\ SF_vars(AcceptTimeout)

SpecLive == Init /\ [][Next]_vars /\ AgentFairness

\* ================================================= the VM Watcher (AnlasserVM)

\* the child run() is iterating over
current == n_popen

vmhist == <<h_net, h_signals, h_shutdown, h_cleanup, h_flag_at_run>>

Raise(by, exception) == [by |-> by, outcome |-> exception]

Return(value) == [by |-> "run", outcome |-> value]

\* vm_cli.exit_signal_handler: SIGTERM / SIGINT / SIGQUIT delivered to the watcher
VmExitSignalHandler ==
    /\ vm_pc \notin {"parked", "terminated", "killed"}
    /\ vm_shutdown_flag = FALSE
    /\ vm_shutdown_flag' = TRUE
    /\ UNCHANGED <<vm_pc, config, bhyve_command, network_setup_done, bhyve_proc, n_popen,
                   dev_vmm, tap, vm_result, vmhist, wait_deadline, agentvars, fnvars>>

\* SIGKILL delivered to the watcher (the Agent's forced kill): no atexit handler runs
VmSigkill ==
    /\ vm_pc \notin {"parked", "terminated", "killed"}
    /\ vm_pc' = "killed"
    /\ UNCHANGED <<config, bhyve_command, vm_shutdown_flag, network_setup_done, bhyve_proc,
                   n_popen, dev_vmm, tap, vm_result, vmhist, wait_deadline, agentvars, fnvars>>

\* the hypervisor child ends: with one of bhyve's exit codes, or by the SIGKILL sent to
\* it; the device node may or may not be left behind
BhyveExit(code, dev_left) ==
    /\ bhyve_proc.st = "running"
    /\ code \in (IF "kill" \in h_signals[current] THEN KilledReturnCodes ELSE BhyveExitCodes)
    /\ bhyve_proc' = [st |-> "exited", returncode |-> code, args |-> bhyve_proc.args]
    /\ dev_vmm' = (dev_vmm /\ dev_left)
    /\ UNCHANGED <<vm_pc, config, bhyve_command, vm_shutdown_flag, network_setup_done,
                   n_popen, tap, vm_result, vmhist, wait_deadline, agentvars, fnvars>>

\* the running hypervisor opens its tap device, which creates it
TapAppears ==
    /\ bhyve_proc.st = "running"
    /\ tap = "absent"
    /\ tap' = "present"
    /\ UNCHANGED <<vm_pc, config, bhyve_command, vm_shutdown_flag, network_setup_done,
                   bhyve_proc, n_popen, dev_vmm, vm_result, vmhist, wait_deadline, agentvars, fnvars>>

\* load_config(config_path)
VmLoadConfig ==
    /\ vm_pc = "constructed"
    /\ IF LoadConfigError(config) = "none"
       THEN /\ bhyve_command' = BhyveCommand(config)
            /\ vm_pc' = "loaded"
            /\ UNCHANGED vm_result
       ELSE /\ vm_result' = Raise("load_config", "VMConfigError")
            /\ vm_pc' = "load_failed"
            /\ UNCHANGED bhyve_command
    /\ UNCHANGED <<config, vm_shutdown_flag, network_setup_done, bhyve_proc, n_popen,
                   dev_vmm, tap, vmhist, wait_deadline, agentvars, fnvars>>

\* vm_cli: the VMConfigError of load_config is not caught; the interpreter exits
VmLoadFailedExit ==
    /\ vm_pc = "load_failed"
    /\ vm_pc' = "atexit"
    /\ UNCHANGED <<config, bhyve_command, vm_shutdown_flag, network_setup_done, bhyve_proc,
                   n_popen, dev_vmm, tap, vm_result, vmhist, wait_deadline, agentvars, fnvars>>

VmRunReturnsOnFlag ==
    /\ vm_pc \in {"constructed", "loaded", "load_failed"}
    /\ IF bhyve_command = NoCommand \/ ~config.uefi_vars_is_file
       THEN vm_result' = Raise("run", "VMConfigError") /\ vm_pc' = "atexit"
       ELSE IF vm_shutdown_flag
       THEN vm_result' = Return("return 0") /\ vm_pc' = "atexit"
       ELSE vm_pc' = "spawn" /\ UNCHANGED vm_result
    /\ h_flag_at_run' = (IF vm_shutdown_flag THEN "set" ELSE "clear")
    /\ UNCHANGED <<config, bhyve_command, vm_shutdown_flag, network_setup_done, bhyve_proc,
                   n_popen, dev_vmm, tap, h_net, h_signals, h_shutdown, h_cleanup,
                   wait_deadline, agentvars, fnvars>>

\* run(), up to the for loop: callable by a consumer of the class in any order
VmRun ==
    /\ vm_pc \in {"constructed", "loaded", "load_failed"}
    /\ IF bhyve_command = NoCommand \/ ~config.uefi_vars_is_file
       THEN vm_result' = Raise("run", "VMConfigError") /\ vm_pc' = "atexit"
       ELSE vm_pc' = "spawn" /\ UNCHANGED vm_result
    /\ h_flag_at_run' = (IF vm_shutdown_flag THEN "set" ELSE "clear")
    /\ UNCHANGED <<config, bhyve_command, vm_shutdown_flag, network_setup_done, bhyve_proc,
                   n_popen, dev_vmm, tap, h_net, h_signals, h_shutdown, h_cleanup, wait_deadline, agentvars, fnvars>>

NetworkStepAlways(done) == TRUE

\* if self._network_setup_done is False:
NetworkStepDue(done) == done = FALSE

\* _bhyve_proc_generator: subprocess.Popen(self.bhyve_command), then the test of
\* _network_setup_done
VmSpawn ==
    /\ vm_pc = "spawn"
    /\ n_popen < MaxChildren
    /\ n_popen' = n_popen + 1
    /\ bhyve_proc' = [st |-> "running", args |-> bhyve_command]
    /\ dev_vmm' = TRUE
    /\ IF NetworkStepDue(network_setup_done)
       THEN vm_pc' = "net_wait" /\ h_net' = [h_net EXCEPT ![n_popen + 1] = "waiting"]
       ELSE vm_pc' = "poll" /\ h_net' = [h_net EXCEPT ![n_popen + 1] = "skipped"]
    /\ UNCHANGED <<config, bhyve_command, vm_shutdown_flag, network_setup_done, tap,
                   vm_result, h_signals, h_shutdown, h_cleanup, h_flag_at_run, wait_deadline, agentvars, fnvars>>

\* _wait_for_tap_device_creation: the device is listed, return True
VmWaitForTap ==
    /\ vm_pc = "net_wait"
    /\ tap /= "absent"
    /\ vm_pc' = "net_add"
    /\ UNCHANGED <<config, bhyve_command, vm_shutdown_flag, network_setup_done, bhyve_proc,
                   n_popen, dev_vmm, tap, vm_result, vmhist, wait_deadline, agentvars, fnvars>>

\* _wait_for_tap_device_creation: raise TimeoutError, which leaves run()
VmWaitForTapTimeout ==
    /\ vm_pc = "net_wait"
    /\ tap = "absent"
    /\ vm_result' = Raise("run", "TimeoutError")
    /\ h_net' = [h_net EXCEPT ![current] = "timeout"]
    /\ vm_pc' = "atexit"
    /\ UNCHANGED <<config, bhyve_command, vm_shutdown_flag, network_setup_done, bhyve_proc,
                   n_popen, dev_vmm, tap, h_signals, h_shutdown, h_cleanup, h_flag_at_run, wait_deadline, agentvars, fnvars>>

VmTapAddFailureShutsDown(ok) ==
    /\ vm_pc = "net_add"
    /\ IF ok
       THEN /\ network_setup_done' = TRUE
            /\ tap' = "bridged"
            /\ h_net' = [h_net EXCEPT ![current] = "add_ok"]
            /\ vm_pc' = "poll"
            /\ UNCHANGED <<h_signals, h_shutdown>>
       ELSE /\ h_net' = [h_net EXCEPT ![current] = "add_failed"]
            /\ h_signals' = [h_signals EXCEPT ![current] =
                                IF bhyve_proc.st = "running" THEN @ \cup {"terminate"} ELSE @]
            /\ h_shutdown' = [h_shutdown EXCEPT ![current] = "waiting"]
            /\ vm_pc' = "sb_wait"
            /\ UNCHANGED <<network_setup_done, tap>>
    /\ UNCHANGED <<config, bhyve_command, vm_shutdown_flag, bhyve_proc, n_popen, dev_vmm,
                   vm_result, h_cleanup, h_flag_at_run, wait_deadline, agentvars, fnvars>>

\* _tap_operation("add", tapdev, bridge): ifconfig succeeds or fails
VmTapAdd(ok) ==
    /\ vm_pc = "net_add"
    /\ IF ok
       THEN /\ network_setup_done' = TRUE
            /\ tap' = "bridged"
            /\ h_net' = [h_net EXCEPT ![current] = "add_ok"]
       ELSE /\ h_net' = [h_net EXCEPT ![current] = "add_failed"]
            /\ UNCHANGED <<network_setup_done, tap>>
    /\ vm_pc' = "poll"
    /\ UNCHANGED <<config, bhyve_command, vm_shutdown_flag, bhyve_proc, n_popen, dev_vmm,
                   vm_result, h_signals, h_shutdown, h_cleanup, h_flag_at_run, wait_deadline, agentvars, fnvars>>

\* _busy_loop: while bhyve_proc.poll() is None
VmPoll ==
    /\ vm_pc = "poll"
    /\ vm_pc' = IF bhyve_proc.st = "exited" THEN "map" ELSE "sleep"
    /\ UNCHANGED <<config, bhyve_command, vm_shutdown_flag, network_setup_done, bhyve_proc,
                   n_popen, dev_vmm, tap, vm_result, vmhist, wait_deadline, agentvars, fnvars>>

\* _shutdown_bhyve(bhyve_proc, timeout=300) on the coordinator's clock: the code's
\* 300 s are shorter than the coordinator's 330 s, here by one polling interval
WaitTimeout == timeout - 1

\* _busy_loop: sleep(0.2); if self.shutdown_flag is True: _shutdown_bhyve: terminate(),
\* which signals the child only if it has not ended yet; wait(timeout) starts
VmSleep ==
    /\ vm_pc = "sleep"
    /\ IF vm_shutdown_flag
       THEN /\ h_signals' = [h_signals EXCEPT ![current] =
                                IF bhyve_proc.st = "running" THEN @ \cup {"terminate"} ELSE @]
            /\ h_shutdown' = [h_shutdown EXCEPT ![current] = "waiting"]
            /\ wait_deadline' = clock + WaitTimeout
            /\ vm_pc' = "sb_wait"
       ELSE /\ vm_pc' = "poll"
            /\ UNCHANGED <<h_signals, h_shutdown, wait_deadline>>
    /\ UNCHANGED <<config, bhyve_command, vm_shutdown_flag, network_setup_done, bhyve_proc,
                   n_popen, dev_vmm, tap, vm_result, h_net, h_cleanup, h_flag_at_run, agentvars, fnvars>>

VmShutdownWaitThenKill ==
    /\ vm_pc = "sb_wait"
    /\ bhyve_proc.st = "exited"
    /\ h_signals' = [h_signals EXCEPT ![current] = @ \cup {"kill"}]
    /\ h_shutdown' = [h_shutdown EXCEPT ![current] = "graceful"]
    /\ vm_pc' = "sb_communicate"
    /\ UNCHANGED <<config, bhyve_command, vm_shutdown_flag, network_setup_done, bhyve_proc,
                   n_popen, dev_vmm, tap, vm_result, h_net, h_cleanup, h_flag_at_run, wait_deadline, agentvars, fnvars>>

\* _shutdown_bhyve: bhyve_proc.wait(timeout) returns, graceful = True
VmShutdownWait ==
    /\ vm_pc = "sb_wait"
    /\ bhyve_proc.st = "exited"
    /\ h_shutdown' = [h_shutdown EXCEPT ![current] = "graceful"]
    /\ vm_pc' = "sb_communicate"
    /\ UNCHANGED <<config, bhyve_command, vm_shutdown_flag, network_setup_done, bhyve_proc,
                   n_popen, dev_vmm, tap, vm_result, h_net, h_signals, h_cleanup, h_flag_at_run, wait_deadline, agentvars, fnvars>>

\* _shutdown_bhyve: except subprocess.TimeoutExpired: bhyve_proc.kill()
VmShutdownTimeout ==
    /\ vm_pc = "sb_wait"
    /\ bhyve_proc.st = "running"
    /\ h_signals' = [h_signals EXCEPT ![current] = @ \cup {"kill"}]
    /\ h_shutdown' = [h_shutdown EXCEPT ![current] = "forced"]
    /\ vm_pc' = "sb_communicate"
    /\ UNCHANGED <<config, bhyve_command, vm_shutdown_flag, network_setup_done, bhyve_proc,
                   n_popen, dev_vmm, tap, vm_result, h_net, h_cleanup, h_flag_at_run, wait_deadline, agentvars, fnvars>>

VmCommunicateReturnsEarly ==
    /\ vm_pc = "sb_communicate"
    /\ vm_pc' = "poll"
    /\ UNCHANGED <<config, bhyve_command, vm_shutdown_flag, network_setup_done, bhyve_proc,
                   n_popen, dev_vmm, tap, vm_result, vmhist, wait_deadline, agentvars, fnvars>>

\* _shutdown_bhyve: finally: bhyve_proc.communicate() blocks until the child has ended
VmCommunicate ==
    /\ vm_pc = "sb_communicate"
    /\ bhyve_proc.st = "exited"
    /\ vm_pc' = "poll"
    /\ UNCHANGED <<config, bhyve_command, vm_shutdown_flag, network_setup_done, bhyve_proc,
                   n_popen, dev_vmm, tap, vm_result, vmhist, wait_deadline, agentvars, fnvars>>

VmMapRespawnExtendsCommand ==
    /\ vm_pc = "map"
    /\ IF bhyve_proc.returncode = 0
       THEN /\ vm_pc' = "spawn"
            /\ bhyve_command' = Append(bhyve_command, <<"-H">>)
            /\ UNCHANGED vm_result
       ELSE /\ vm_pc' = "atexit"
            /\ vm_result' = Return(IF bhyve_proc.returncode = 1 THEN "return 0" ELSE "return 1")
            /\ UNCHANGED bhyve_command
    /\ UNCHANGED <<config, vm_shutdown_flag, network_setup_done, bhyve_proc,
                   n_popen, dev_vmm, tap, vmhist, wait_deadline, agentvars, fnvars>>

ExitCodeMapAllZero(code) == "return 0"

\* run(): what the exit code of the child leads to
ExitCodeMap(code) ==
    IF code = 0 THEN "respawn" ELSE IF code = 1 THEN "return 0" ELSE "return 1"

\* run(): bhyve_exit_code = self._busy_loop(bhyve_proc) and the if / elif / else on it
VmMap ==
    /\ vm_pc = "map"
    /\ IF ExitCodeMap(bhyve_proc.returncode) = "respawn"
       THEN vm_pc' = "spawn" /\ UNCHANGED vm_result
       ELSE vm_pc' = "atexit" /\ vm_result' = Return(ExitCodeMap(bhyve_proc.returncode))
    /\ UNCHANGED <<config, bhyve_command, vm_shutdown_flag, network_setup_done, bhyve_proc,
                   n_popen, dev_vmm, tap, vmhist, wait_deadline, agentvars, fnvars>>

VmCleanupKeepsTap ==
    /\ vm_pc = "atexit"
    /\ h_cleanup' = Append(h_cleanup, [dev_vmm |-> dev_vmm,
                                       network_setup_done |-> network_setup_done,
                                       bhyvectl_destroy |-> dev_vmm,
                                       tap_destroy |-> FALSE])
    /\ dev_vmm' = FALSE
    /\ vm_pc' = "terminated"
    /\ UNCHANGED <<config, bhyve_command, vm_shutdown_flag, network_setup_done, bhyve_proc,
                   n_popen, tap, vm_result, h_net, h_signals, h_shutdown, h_flag_at_run, wait_deadline, agentvars, fnvars>>

\* atexit: _cleanup, once the interpreter exits (run() returned or an exception left it)
VmCleanup ==
    /\ vm_pc = "atexit"
    /\ h_cleanup' = Append(h_cleanup, [dev_vmm |-> dev_vmm,
                                       network_setup_done |-> network_setup_done,
                                       bhyvectl_destroy |-> dev_vmm,
                                       tap_destroy |-> (network_setup_done = TRUE)])
    /\ dev_vmm' = FALSE
    /\ tap' = IF network_setup_done = TRUE THEN "destroyed" ELSE tap
    /\ vm_pc' = "terminated"
    /\ UNCHANGED <<config, bhyve_command, vm_shutdown_flag, network_setup_done, bhyve_proc,
                   n_popen, vm_result, h_net, h_signals, h_shutdown, h_flag_at_run, wait_deadline, agentvars, fnvars>>

NextVM ==
    \/ VmExitSignalHandler
    \/ VmSigkill
    \/ \E code \in BhyveExitCodes \cup KilledReturnCodes, dev_left \in BOOLEAN :
           BhyveExit(code, dev_left)
    \/ TapAppears
    \/ VmLoadConfig
    \/ VmLoadFailedExit
    \/ VmRun
    \/ VmSpawn
    \/ VmWaitForTap
    \/ VmWaitForTapTimeout
    \/ \E ok \in BOOLEAN : VmTapAdd(ok)
    \/ VmPoll
    \/ VmSleep
    \/ VmShutdownWait
    \/ VmShutdownTimeout
    \/ VmCommunicate
    \/ VmMap
    \/ VmCleanup

SpecVM == InitVM /\ [][NextVM]_vars

\* _bhyve_proc_generator once MaxChildren children have been spawned: the loop goes on,
\* the count stays at MaxChildren and the last child's histories start afresh for
\* the new child
VmSpawnAgain ==
    /\ vm_pc = "spawn"
    /\ n_popen = MaxChildren
    /\ bhyve_proc' = [st |-> "running", args |-> bhyve_command]
    /\ dev_vmm' = TRUE
    /\ IF NetworkStepDue(network_setup_done)
       THEN vm_pc' = "net_wait" /\ h_net' = [h_net EXCEPT ![n_popen] = "waiting"]
       ELSE vm_pc' = "poll" /\ h_net' = [h_net EXCEPT ![n_popen] = "skipped"]
    /\ h_signals' = [h_signals EXCEPT ![n_popen] = {}]
    /\ h_shutdown' = [h_shutdown EXCEPT ![n_popen] = "none"]
    /\ UNCHANGED <<config, bhyve_command, vm_shutdown_flag, network_setup_done, n_popen, tap,
                   vm_result, h_cleanup, h_flag_at_run, wait_deadline, agentvars, fnvars>>

NextVMLive == NextVM \/ VmSpawnAgain

\* The watcher's single thread keeps running: every step of run() and the atexit
\* handler are taken once they are due (the waits of run() are all bounded). A
\* hypervisor child that was sent SIGKILL ends.
VmFairness ==
    /\ WF_vars(VmSpawn)
    /\ WF_vars(VmSpawnAgain)
    /\ WF_vars(VmWaitForTap)
    /\ WF_vars(VmWaitForTapTimeout)
    /\ WF_vars(\E ok \in BOOLEAN : VmTapAdd(ok))
    /\ WF_vars(VmPoll)
    /\ WF_vars(VmSleep)
    /\ WF_vars(VmShutdownWait)
    /\ WF_vars(VmShutdownTimeout)
    /\ WF_vars(VmCommunicate)
    /\ WF_vars(VmMap)
    /\ WF_vars(VmCleanup)
    /\ WF_vars(\E code \in KilledReturnCodes, dev_left \in BOOLEAN :
                   /\ current \in DOMAIN h_signals
                   /\ "kill" \in h_signals[current]
                   /\ BhyveExit(code, dev_left))

SpecVMLive == InitVM /\ [][NextVMLive]_vars /\ VmFairness

\* ============================ load_config, called on two objects with one file

\* the config files the two calls are given
LoadInputs ==
    {c \in ConfigFiles({ConfigKeySet, ConfigKeySet \ {"name"}, ConfigKeySet \ {"tapdev"},
                        ConfigKeySet \ {"vnc_port"}, {}},
                       SUBSET OptionalConfigKeys) :
        c.uefi_vars_is_file /\ ~c.kbd_layout_is_file}

\* the config files the second object has loaded before: complete ones
PriorInputs ==
    {c \in ConfigFiles({ConfigKeySet}, {{}, OptionalConfigKeys}) :
        c.stem = VmName /\ c.uefi_vars_is_file /\ c.kbd_layout_is_file}

\* the file cfg with the keyboard layout file present or not
WithLayoutFile(cfg, is_file) == [cfg EXCEPT !.kbd_layout_is_file = is_file]

InitLoad ==
    /\ AgentInit /\ VmParked /\ CodecParked
    /\ ld_pc = "constructed"
    /\ ld_config \in LoadInputs
    /\ ld_prior \in PriorInputs
    /\ ld_files \in [first : BOOLEAN, second : BOOLEAN]
    /\ ld_first = FreshVm
    /\ ld_second = FreshVm

\* the second object loads another config first
LdLoadPrior ==
    /\ ld_pc = "constructed"
    /\ ld_second' = LoadConfig(ld_second, ld_prior)
    /\ ld_pc' = "used"
    /\ UNCHANGED <<ld_config, ld_prior, ld_files, ld_first, agentvars, vmvars, codecvars>>

\* load_config(config_path) on the fresh object
LdLoadFirst ==
    /\ ld_pc = "used"
    /\ ld_first' = LoadConfig(ld_first, WithLayoutFile(ld_config, ld_files.first))
    /\ ld_pc' = "first_loaded"
    /\ UNCHANGED <<ld_config, ld_prior, ld_files, ld_second, agentvars, vmvars, codecvars>>

\* load_config(config_path), the same file, on the object that was used before
LdLoadSecond ==
    /\ ld_pc = "first_loaded"
    /\ ld_second' = LoadConfig(ld_second, WithLayoutFile(ld_config, ld_files.second))
    /\ ld_pc' = "both_loaded"
    /\ UNCHANGED <<ld_config, ld_prior, ld_files, ld_first, agentvars, vmvars, codecvars>>

NextLoad ==
    \/ LdLoadPrior
    \/ LdLoadFirst
    \/ LdLoadSecond

SpecLoad == InitLoad /\ [][NextLoad]_vars

\* =================================== one message through the codec, both ways

InitCodec ==
    /\ AgentInit /\ VmParked /\ LoadParked
    /\ cx_pc = "built"
    /\ \/ cx_side = "request" /\ cx_data \in ClientRequests
       \/ cx_side = "response" /\ cx_data \in ServerResponses
    /\ cx_wire = NoData
    /\ cx_raw = NoData
    /\ cx_json = None
    /\ cx_msg = None

\* AnlasserClient.communicate, first half: the request is encoded and sent
CxClientSend ==
    /\ cx_pc = "built" /\ cx_side = "request"
    /\ cx_wire' = ClientEncode(cx_data)
    /\ cx_pc' = "sent"
    /\ UNCHANGED <<cx_side, cx_data, cx_raw, cx_json, cx_msg, agentvars, vmvars, loadvars>>

\* AnlasserAgent._send_response: the response is encoded and sent
CxServerSend ==
    /\ cx_pc = "built" /\ cx_side = "response"
    /\ cx_wire' = ServerEncode(cx_data)
    /\ cx_pc' = "sent"
    /\ UNCHANGED <<cx_side, cx_data, cx_raw, cx_json, cx_msg, agentvars, vmvars, loadvars>>

\* _get_socket_data on the receiving side: one recv(8192)
CxRecv ==
    /\ cx_pc = "sent"
    /\ cx_raw' = Recv(cx_wire)
    /\ cx_pc' = "received"
    /\ UNCHANGED <<cx_side, cx_data, cx_wire, cx_json, cx_msg, agentvars, vmvars, loadvars>>

\* AnlasserAgent._parse_client_message on a request
CxServerDecode ==
    /\ cx_pc = "received" /\ cx_side = "request"
    /\ cx_json' = ParseClientMessage(cx_raw)
    /\ cx_pc' = "decoded"
    /\ UNCHANGED <<cx_side, cx_data, cx_wire, cx_raw, cx_msg, agentvars, vmvars, loadvars>>

\* AnlasserClient.load_json_from_server_msg on a response
CxClientDecode ==
    /\ cx_pc = "received" /\ cx_side = "response"
    /\ cx_json' = LoadJsonFromServerMsg(cx_raw)
    /\ cx_pc' = "decoded"
    /\ UNCHANGED <<cx_side, cx_data, cx_wire, cx_raw, cx_msg, agentvars, vmvars, loadvars>>

\* AnlasserClient.parse_server_json on what load_json_from_server_msg returned
CxClientParse ==
    /\ cx_pc = "decoded" /\ cx_side = "response"
    /\ cx_msg' = ParseServerJson(cx_json)
    /\ cx_pc' = "parsed"
    /\ UNCHANGED <<cx_side, cx_data, cx_wire, cx_raw, cx_json, agentvars, vmvars, loadvars>>

NextCodec ==
    \/ CxClientSend
    \/ CxServerSend
    \/ CxRecv
    \/ CxServerDecode
    \/ CxClientDecode
    \/ CxClientParse

SpecCodec == InitCodec /\ [][NextCodec]_vars

\* ============================================ either process, looked at alone

InitBoth == Init \/ InitVM

\* a behaviour is the Agent's (no watcher looked at) or one watcher's
NextBoth ==
    \/ vm_pc = "parked" /\ Next
    \/ vm_pc /= "parked" /\ NextVM

SpecBoth == InitBoth /\ [][NextBoth]_vars

\* ======================= the coordinator, called on any set of names

\* registries the Agent can hold when the coordinator is called
CoordRegistries ==
    {<<>>, << [name |-> "A", pid |-> 1] >>,
     << [name |-> "A", pid |-> 1], [name |-> "B", pid |-> 2] >>,
     << [name |-> "B", pid |-> 1], [name |-> "A", pid |-> 2] >>}

\* The Agent holds one of the registries, every registered watcher running; it is
\* about to serve a request (pc = "accept") or _parallel_vm_shutdown is about to be
\* called on it with shutdown_names of the caller's choice (pc = "call").
InitCoord ==
    /\ VmParked /\ CodecParked /\ LoadParked
    /\ registry \in CoordRegistries
    /\ procs = [p \in Pids |->
                  IF p \in PidsOf(registry)
                  THEN [name |-> registry[p].name, st |-> "running"]
                  ELSE [name |-> "none", st |-> "unborn"]]
    /\ next_pid = Len(registry) + 1
    /\ shutdown_flag = FALSE
    /\ exit_code = InitExitCode
    /\ pc \in {"accept", "call"}
    /\ last_request = NoRequest
    /\ response = NoResponse
    /\ exch = NoExchange
    /\ hitlist = <<>>
    /\ ps_idx = 1
    /\ ps_caller = "none"
    /\ ps_result = TRUE
    /\ clock = 0
    /\ deadline = 0
    /\ ps_targets = {}
    /\ ps_term_sent = {}
    /\ ps_kill_sent = {}
    /\ ps_late = {}
    /\ ever_started = Keys(registry)
    /\ up_since_stop = Keys(registry)
    /\ raw_client_data = NoData
    /\ n_sent = 0
    /\ server_socket = "open"
    /\ socket_file = TRUE

\* _parallel_vm_shutdown(shutdown_names, timeout) called directly
CoordCall(shutdown_names) ==
    /\ pc = "call"
    /\ EnterCoordinator(shutdown_names, "direct")
    /\ UNCHANGED <<registry, procs, next_pid, shutdown_flag, exit_code, last_request,
                   response, exch, ever_started, up_since_stop>>
    /\ UNCHANGED connvars
    /\ UNCHANGED <<sockvars, vmvars, fnvars>>

NextCoord ==
    \/ \E shutdown_names \in SUBSET Names : CoordCall(shutdown_names)
    \/ \E vm_name \in Names : ClientSetVmStateDown(vm_name)
    \/ \E p \in Pids : WatcherExit(p)
    \/ PsTerminate
    \/ PsDeadline
    \/ PsLoop
    \/ PsSleep
    \/ PsReap
    \/ PsKill
    \/ PsFinalReap
    \/ PsReturn

SpecCoord == InitCoord /\ [][NextCoord]_vars

\* ============================ the Agent and the watcher it spawned for "A"

\* the pid of the watcher whose run() is looked at
WatcherPid == 1

WatcherGone == vm_pc \in {"terminated", "killed"}

\* The Agent has spawned and registered the watcher of "A" (pid 1), which has just
\* constructed its AnlasserVM and is given a config file with the mandatory keys only
\* that load_config and run() accept; the Agent is back in its loop.
InitPair ==
    /\ VmConstructed /\ CodecParked /\ LoadParked
    /\ LoadConfigError(config) = "none"
    /\ config.uefi_vars_is_file
    /\ config.optional = {}
    /\ ~config.kbd_layout_is_file
    /\ registry = << [name |-> "A", pid |-> WatcherPid] >>
    /\ procs = [p \in Pids |->
                  IF p = WatcherPid THEN [name |-> "A", st |-> "running"]
                  ELSE [name |-> "none", st |-> "unborn"]]
    /\ next_pid = WatcherPid + 1
    /\ shutdown_flag = FALSE
    /\ exit_code = InitExitCode
    /\ pc = "loop"
    /\ last_request = NoRequest
    /\ response = NoResponse
    /\ exch = NoExchange
    /\ hitlist = <<>>
    /\ ps_idx = 1
    /\ ps_caller = "none"
    /\ ps_result = TRUE
    /\ clock = 0
    /\ deadline = 0
    /\ ps_targets = {}
    /\ ps_term_sent = {}
    /\ ps_kill_sent = {}
    /\ ps_late = {}
    /\ ever_started = {"A"}
    /\ up_since_stop = {"A"}
    /\ raw_client_data = NoData
    /\ n_sent = 0
    /\ server_socket = "open"
    /\ socket_file = TRUE

\* The watcher, its child or the kernel has a step due that takes far less than one
\* polling interval of the coordinator: the delivery of a signal, a step of run()
\* between its waits (the busy loop sleeps 0.2 s, the tap wait gives up after 5 s), a
\* wait that has expired, the end of a child that was sent SIGKILL, the atexit handler.
WatcherDue ==
    \/ WatcherPid \in ps_term_sent /\ ~vm_shutdown_flag /\ ~WatcherGone
    \/ WatcherPid \in ps_kill_sent /\ ~WatcherGone
    \/ WatcherGone /\ procs[WatcherPid].st = "running"
    \/ vm_pc \in {"constructed", "loaded", "load_failed", "spawn", "net_wait", "net_add", "map",
                 "atexit"}
    \/ vm_pc \in {"poll", "sleep"} /\ (vm_shutdown_flag \/ bhyve_proc.st = "exited")
    \/ vm_pc = "sb_wait" /\ (bhyve_proc.st = "exited" \/ clock >= wait_deadline)
    \/ vm_pc = "sb_communicate" /\ bhyve_proc.st = "exited"
    \/ ~WatcherGone /\ bhyve_proc.st = "running" /\ "kill" \in h_signals[current]

\* vm_proc.terminate() of the coordinator reaches the watcher: its handler runs
PairExitSignalHandler ==
    /\ WatcherPid \in ps_term_sent
    /\ VmExitSignalHandler

\* vm_proc.kill() of the coordinator reaches the watcher
PairSigkill ==
    /\ WatcherPid \in ps_kill_sent
    /\ VmSigkill

\* the watcher's process has ended: its Popen handle in the Agent reports it
PairWatcherExit ==
    /\ WatcherGone
    /\ WatcherExit(WatcherPid)

\* sleep(1) of the coordinator: the clock moves on once nothing shorter is due
PairSleep ==
    /\ ~WatcherDue
    /\ PsSleep

\* bhyve_proc.wait(timeout) raises TimeoutExpired: not before its timeout has passed
PairShutdownTimeout ==
    /\ clock >= wait_deadline
    /\ VmShutdownTimeout

\* the ways a child ends that run() tells apart: reboot, power off, an error, killed
PairExitCodes == {0, 1, 4, 137}

NextPair ==
    \/ ClientSetVmStateDown("A")
    \/ ExitSignalHandler
    \/ LoopCheck
    \/ AcceptTimeout
    \/ ShutdownClose
    \/ ShutdownUnlink
    \/ Shutdown
    \/ PsTerminate
    \/ PsDeadline
    \/ PsLoop
    \/ PairSleep
    \/ PsReap
    \/ PsKill
    \/ PsFinalReap
    \/ PsReturn
    \/ PairWatcherExit
    \/ PairExitSignalHandler
    \/ PairSigkill
    \/ \E code \in PairExitCodes, dev_left \in BOOLEAN : BhyveExit(code, dev_left)
    \/ TapAppears
    \/ VmLoadConfig
    \/ VmRun
    \/ VmSpawn
    \/ VmWaitForTap
    \/ VmWaitForTapTimeout
    \/ \E ok \in BOOLEAN : VmTapAdd(ok)
    \/ VmPoll
    \/ VmSleep
    \/ VmShutdownWait
    \/ PairShutdownTimeout
    \/ VmCommunicate
    \/ VmMap
    \/ VmCleanup

SpecPair == InitPair /\ [][NextPair]_vars

\* ================================================================ claims

IsUp == last_request.action = "set_vm_state" /\ last_request.vm_target_state = "up"

IsDown == last_request.action = "set_vm_state" /\ last_request.vm_target_state = "down"

\* the handler of last_request has returned and its response is on the wire
Answered == pc = "loop" /\ last_request /= NoRequest

\* watcher processes spawned for name and not reaped by the Agent
Unreaped(name) == {p \in Pids : procs[p].name = name /\ procs[p].st \in {"running", "exited"}}

\* C1: in every coordinator run no target has had kill() called on it before
\* terminate() was called on every target of the run, whichever targets exited
\* in the meantime.
C1_TerminateAllBeforeAnyKill ==
    ps_kill_sent /= {} => ps_targets \subseteq ps_term_sent

\* a run over two targets returned; one exited quickly and was reaped by the loop,
\* the other was killed at the deadline
C1_Witness ==
    /\ pc = "ps_return"
    /\ Cardinality(ps_targets) = 2
    /\ Cardinality(ps_kill_sent) = 1
    /\ \E p \in ps_targets \ ps_kill_sent : procs[p].st = "reaped"

C3_KillExactlyOutstanding ==
    pc = "ps_return" =>
        ps_kill_sent = {p \in ps_targets : p \in ps_late \/ procs[p].st = "running"}

\* N = 2, M = 1: one target exited in time, one did not
C3_Witness ==
    /\ pc = "ps_return"
    /\ ps_caller = "shutdown"
    /\ Cardinality(ps_targets) = 2
    /\ \E p, q \in ps_targets :
          /\ p \notin ps_kill_sent /\ procs[p].st = "reaped"
          /\ q \in ps_kill_sent /\ q \in ps_late

InCoordinator ==
    pc \in {"ps_term", "ps_deadline", "ps_loop", "ps_sleep", "ps_reap", "ps_kill",
            "ps_final_reap", "ps_return"}

\* C4: counted in polling intervals, a coordinator run never lasts longer than
\* its deadline plus one interval, and it never sleeps again once a poll has
\* found the outstanding set empty.
C4_BoundedByDeadline ==
    /\ InCoordinator => clock <= timeout + 1
    /\ pc = "ps_sleep" => Len(hitlist) > 0 /\ clock < deadline

\* a run over two targets that left the loop before the deadline
C4_Witness ==
    /\ pc = "ps_return"
    /\ Cardinality(ps_targets) = 2
    /\ clock >= 1
    /\ clock < deadline
    /\ ps_kill_sent = {}

\* C5 as stated: whenever a request can be served, every registered watcher is alive.
C5_RegistryOnlyAlive ==
    pc = "accept" => \A i \in 1..Len(registry) : procs[registry[i].pid].st = "running"

\* C5, amended: whenever a request can be served, every registry entry is the
\* handle of a watcher spawned for that name that the Agent has not reaped
\* (alive, or exited and not yet seen by _reap_zombies); get_vm_state answers
\* vm_up exactly for the registered names.
C5_RegistryOnlyUnreaped ==
    /\ pc = "accept" =>
          \A i \in 1..Len(registry) : registry[i].pid \in Unreaped(registry[i].name)
    /\ (Answered /\ last_request.action = "get_vm_state") =>
          /\ response.vm_state = "vm_up" <=> last_request.vm_name \in Keys(registry)
          /\ response.vm_state = "vm_up" => response.vm_pid \in Unreaped(last_request.vm_name)

\* get_vm_state answered vm_up for a watcher that has already exited
C5_Witness ==
    /\ Answered
    /\ last_request.action = "get_vm_state"
    /\ response.vm_state = "vm_up"
    /\ procs[response.vm_pid].st = "exited"

\* C6 as stated: a set_vm_state(up) that follows a successful one for the same
\* name with no stop in between spawns no watcher process.
C6_SecondUpNeverSpawns ==
    (IsUp /\ exch.up_before) => next_pid = exch.pid_before

\* C6, amended: set_vm_state(up) for a name still registered (no stop and no
\* reap of its watcher since the start) is answered success, spawns nothing and
\* leaves the registry as it was, with one entry and one tracked process for
\* the name; a first set_vm_state(up) whose spawn succeeds is answered success
\* and appends the one entry.
C6_UpOnRegisteredIsNoop ==
    /\ \A i, j \in 1..Len(registry) : registry[i].name = registry[j].name => i = j
    /\ (Answered /\ IsUp /\ exch.was_registered) =>
          /\ response = [result |-> "success"]
          /\ next_pid = exch.pid_before
          /\ registry = exch.reg_before
          /\ Unreaped(last_request.vm_name) = {Get(registry, last_request.vm_name)}
    /\ (Answered /\ IsUp /\ ~exch.was_registered) =>
          /\ response = [result |-> "success"]
          /\ next_pid = exch.pid_before + 1
          /\ registry = Append(exch.reg_before,
                               [name |-> last_request.vm_name, pid |-> exch.pid_before])
          /\ Unreaped(last_request.vm_name) = {exch.pid_before}

\* the second of two set_vm_state(up) for a name, the other name being up as well
C6_Witness ==
    /\ Answered
    /\ IsUp
    /\ exch.was_registered
    /\ exch.up_before
    /\ Len(registry) = 2

\* C7: when the spawn fails, the client gets a failure response and no registry
\* entry exists for the name.
C7_SpawnFailureAnswered ==
    exch.spawn = "failed" =>
        /\ response.result = "failure"
        /\ last_request.vm_name \notin Keys(registry)

\* C8: set_vm_state(down) for a name absent from the registry answers success,
\* calls terminate() and kill() on nothing and leaves the registry and the
\* watcher processes as they were.
C8_StopAbsentIsNoop ==
    (Answered /\ IsDown /\ ~exch.was_registered) =>
        /\ response = [result |-> "success"]
        /\ registry = exch.reg_before
        /\ ps_term_sent = {}
        /\ ps_kill_sent = {}
        /\ ps_targets = {}

\* stop of an absent name while another watcher is registered and alive
C8_Witness ==
    /\ Answered
    /\ IsDown
    /\ ~exch.was_registered
    /\ \E i \in 1..Len(registry) : procs[registry[i].pid].st = "running"

\* C9: get_vm_state for a name no watcher was ever spawned for answers success
\* with vm_state = vm_down and no vm_pid, spawns nothing and leaves the registry
\* as it was, whatever happened to other names.
C9_NeverStartedIsDown ==
    (Answered /\ last_request.action = "get_vm_state"
              /\ last_request.vm_name \notin ever_started) =>
        /\ response = [result |-> "success", vm_state |-> "vm_down"]
        /\ "vm_pid" \notin DOMAIN response
        /\ next_pid = exch.pid_before
        /\ registry = exch.reg_before

\* the query follows a start, a stop and a restart of the other name
C9_Witness ==
    /\ Answered
    /\ last_request.action = "get_vm_state"
    /\ last_request.vm_name \notin ever_started
    /\ ever_started /= {}
    /\ next_pid > 2
    /\ Len(registry) = 1

\* C10 as stated: list_vms returns exactly the names started and not stopped since.
C10_ListIsStartedNotStopped ==
    (Answered /\ last_request.action = "list_vms") =>
        {response.vm_list[i].vm_name : i \in 1..Len(response.vm_list)} = up_since_stop

RECURSIVE TrackedFrom(_)
\* the watchers spawned and not reaped, in the order they were spawned, from pid p on
TrackedFrom(p) ==
    IF p > MaxSpawns THEN <<>>
    ELSE (IF procs[p].st \in {"running", "exited"}
          THEN <<[vm_name |-> procs[p].name, vm_controller_pid |-> p]>>
          ELSE <<>>) \o TrackedFrom(p + 1)

\* C10, amended: list_vms returns exactly the watchers that were spawned by a
\* start and have not been reaped since (by housekeeping or by a coordinator
\* poll that saw the exit), each with its name and pid, in the order they were
\* started.
C10_ListIsUnreapedInOrder ==
    (Answered /\ last_request.action = "list_vms") =>
        response = [result |-> "success", vm_list |-> TrackedFrom(1)]

\* A then B were started, A was stopped and reaped, list_vms returned exactly B
C10_Witness ==
    /\ Answered
    /\ last_request.action = "list_vms"
    /\ procs[1] = [name |-> "A", st |-> "reaped"]
    /\ up_since_stop = {"B"}
    /\ response.vm_list = <<[vm_name |-> "B", vm_controller_pid |-> 2]>>

\* ------------------------------------------------------------------ C11

\* the message has no terminator byte
NoTerminator(raw) == \A i \in 1..Len(raw) : raw[i].t /= "nl"

\* the message is terminated and holds a byte that is no UTF-8
NotUtf8(raw) == ~NoTerminator(raw) /\ \E i \in 1..Len(raw) : raw[i].t = "xff"

\* the message is terminated UTF-8 text that is not one JSON value
NotJson(raw) ==
    /\ ~NoTerminator(raw)
    /\ \A i \in 1..Len(raw) : raw[i].t /= "xff"
    /\ \/ Cardinality({i \in 1..Len(raw) : raw[i].t /= "nl"}) /= 1
       \/ \E i \in 1..Len(raw) : raw[i].t = "garbage"

MalformedText(raw) ==
    IF NoTerminator(raw) THEN "no_terminator"
    ELSE IF NotUtf8(raw) THEN "unicode_decode_error"
    ELSE IF NotJson(raw) THEN "json_decode_error"
    ELSE "well_framed"

\* C11: a message without terminator, a terminated message that is no UTF-8 and a
\* terminated message that is no JSON are each answered with exactly one failure
\* response, error_type client_message_malformed and error_text no_terminator,
\* unicode_decode_error, json_decode_error; the Agent is then back at the top of its
\* accept loop with the registry and the process table as it found them.
C11_MalformedAnswered ==
    (raw_client_data /= NoData /\ MalformedText(raw_client_data) /= "well_framed")
        => /\ pc = "loop"
           /\ response = [result |-> "failure",
                          error_type |-> "client_message_malformed",
                          error_text |-> MalformedText(raw_client_data)]
           /\ n_sent = 1
           /\ registry = exch.reg_before
           /\ next_pid = exch.pid_before

\* all three malformed kinds have been answered while a watcher is registered
C11_Witness ==
    /\ pc = "loop"
    /\ raw_client_data /= NoData
    /\ MalformedText(raw_client_data) = "unicode_decode_error"
    /\ response.result = "failure"
    /\ Len(registry) > 0

\* ------------------------------------------------------------------ C12

\* the one JSON value of a well-framed message
TextValue(raw) == raw[CHOOSE i \in 1..Len(raw) : raw[i].t /= "nl"]

\* what is wrong with a JSON object as a request, in the words of the error taxonomy
Defect(v) ==
    IF "action" \notin DOMAIN v THEN "missing_mandatory_key"
    ELSE IF v.action \notin {"set_vm_state", "get_vm_state", "list_vms"}
         THEN "requested_action_unknown"
    ELSE IF v.action = "set_vm_state"
            /\ ("vm_name" \notin DOMAIN v \/ "vm_target_state" \notin DOMAIN v)
         THEN "missing_mandatory_key"
    ELSE IF v.action = "get_vm_state" /\ "vm_name" \notin DOMAIN v
         THEN "missing_mandatory_key"
    ELSE IF v.action = "set_vm_state" /\ v.vm_target_state \notin {"up", "down"}
         THEN "target_vm_state_unknown"
    ELSE "none"

\* the connection delivered a well-framed message whose value is a JSON object
WellFramedObject ==
    /\ raw_client_data /= NoData
    /\ MalformedText(raw_client_data) = "well_framed"
    /\ TextValue(raw_client_data).t = "object"

\* C12: every well-framed request object that names an unknown action, lacks a
\* mandatory field or asks for a target state other than up/down is answered with a
\* failure response carrying requested_action_unknown, missing_mandatory_key or
\* target_vm_state_unknown, and the Agent is back at the top of its accept loop.
C12_InvalidRequestAnswered ==
    (WellFramedObject /\ Defect(TextValue(raw_client_data).v) /= "none")
        => /\ pc = "loop"
           /\ response.result = "failure"
           /\ response.error_type = "client_message_malformed"
           /\ response.error_text = Defect(TextValue(raw_client_data).v)

\* ------------------------------------------------------------------ C13

\* C13: when the Agent is back at the top of its accept loop after a connection that
\* delivered request bytes, exactly one response has been sent on that connection.
C13_ExactlyOneResponse ==
    (pc = "loop" /\ raw_client_data /= NoData) => n_sent = 1

\* ===================================================== claims on the watcher

\* run() has ended: it returned or an exception left it
RunEnded == vm_pc \in {"atexit", "terminated"} /\ vm_result.by = "run"

\* run() is done with child c: it spawned a later one or it ended
DoneWith(c) == c < n_popen \/ (c = n_popen /\ RunEnded)

\* ------------------------------------------------------------------ C14

\* C14: a step of run() that acts on the exit code of its child while the shutdown
\* flag is not set goes on to spawn a new child when the code is 0, makes run()
\* return 0 when it is 1 and makes run() return 1 for any other code; run() returns
\* a value and goes on to spawn again by such a step only.
C14_ExitCodeDecides ==
    [][/\ (vm_pc = "map" /\ vm_pc' \notin {"map", "killed"} /\ ~vm_shutdown_flag)
            => IF bhyve_proc.returncode = 0
               THEN vm_pc' = "spawn" /\ vm_result' = NoResult
               ELSE IF bhyve_proc.returncode = 1
               THEN vm_pc' = "atexit" /\ vm_result' = Return("return 0")
               ELSE vm_pc' = "atexit" /\ vm_result' = Return("return 1")
       /\ (vm_pc' = "spawn" /\ vm_pc /= "spawn" /\ n_popen > 0)
            => vm_pc = "map" /\ bhyve_proc.returncode = 0
       /\ (vm_result' /= vm_result /\ vm_result'.outcome \in {"return 0", "return 1"})
            => vm_pc = "map" /\ bhyve_proc.returncode /= 0]_vars

\* with the flag never set, a child rebooted, its successor failed and run() returned 1
C14_Witness ==
    /\ ~vm_shutdown_flag
    /\ n_popen = 2
    /\ RunEnded
    /\ bhyve_proc.returncode = 4
    /\ vm_result = Return("return 1")

\* ------------------------------------------------------------------ C15

\* SIGTERM reached child c while it ran, and wait(timeout) saw it end in time
EndedGracefully(c) == "terminate" \in h_signals[c] /\ h_shutdown[c] = "graceful"

\* C15: when the flag was set while the child ran and the child ended within the
\* timeout after terminate(), run() has returned 0 and no kill() was sent to the child.
C15_GracefulReturnsZero ==
    \A c \in Children :
        (c = n_popen /\ EndedGracefully(c) /\ RunEnded)
            => vm_result = Return("return 0") /\ "kill" \notin h_signals[c]

\* C15 (amended): a child that ended within the timeout after terminate() is never
\* sent kill(); run() then returns 0 exactly if the child's exit code is 1 and
\* returns 1 exactly if it is neither 0 nor 1.
C15_GracefulNeverKills ==
    /\ \A c \in Children : EndedGracefully(c) => "kill" \notin h_signals[c]
    /\ (n_popen > 0 /\ EndedGracefully(current) /\ RunEnded)
        => /\ vm_result = Return("return 0") <=> bhyve_proc.returncode = 1
           /\ vm_result = Return("return 1") <=> bhyve_proc.returncode \notin {0, 1}

\* the terminated child powered off in time and run() returned 0
C15_Witness ==
    /\ n_popen > 0
    /\ EndedGracefully(current)
    /\ RunEnded
    /\ bhyve_proc.returncode = 1
    /\ vm_result = Return("return 0")

\* ------------------------------------------------------------------ C16

C17_NoSpawnAfterShuttingDown ==
    \A c \in Children : "terminate" \in h_signals[c] => c = n_popen

\* ------------------------------------------------------------------ C18

\* the network-setup step ran for child c
NetworkStepRan(c) == h_net[c] \notin {"unborn", "skipped"}

\* C18: over one run() the network-setup step runs for the first child only.
C18_NetworkStepOnce ==
    \A c \in Children : NetworkStepRan(c) => c = 1

\* C18 (amended): the network-setup step runs for the first child and then for every
\* later child until the attach to the bridge has succeeded once; after that it is
\* skipped for every child, so the attach succeeds at most once.
C18_NetworkStepUntilAttached ==
    /\ \A c \in Children :
          /\ NetworkStepRan(c) => \A d \in 1..(c - 1) : h_net[d] = "add_failed"
          /\ h_net[c] = "skipped" => \E d \in 1..(c - 1) : h_net[d] = "add_ok"
    /\ network_setup_done = (\E c \in Children : h_net[c] = "add_ok")
    /\ Cardinality({c \in Children : h_net[c] = "add_ok"}) <= 1

\* the attach failed for the first child, succeeded for the second, was skipped for the third
C18_Witness ==
    /\ h_net[1] = "add_failed"
    /\ h_net[2] = "add_ok"
    /\ h_net[3] = "skipped"

\* ------------------------------------------------------------------ C19

\* C19: whenever the watcher process has ended, _cleanup has run exactly once.
C19_CleanupOnEveryExit ==
    vm_pc \in {"terminated", "killed"} => Len(h_cleanup) = 1

\* C19 (amended): when the interpreter exits (run() returned or an exception left
\* load_config or run()), _cleanup has run exactly once: the device node is gone, and
\* the tap device has been destroyed exactly if network setup had completed; on no
\* other path, in particular when SIGKILL ends the watcher, _cleanup runs at all.
C19_CleanupOnInterpreterExit ==
    /\ vm_pc = "terminated"
        => /\ Len(h_cleanup) = 1
           /\ ~dev_vmm
           /\ tap = "destroyed" <=> network_setup_done
           /\ tap /= "bridged"
    /\ vm_pc /= "terminated" => Len(h_cleanup) = 0

\* run() returned 1 with the tap bridged and the device node left behind; both are gone
C19_Witness ==
    /\ vm_pc = "terminated"
    /\ vm_result = Return("return 1")
    /\ Len(h_cleanup) = 1
    /\ h_cleanup[1].dev_vmm
    /\ h_cleanup[1].network_setup_done
    /\ tap = "destroyed"

\* ------------------------------------------------------------------ C20

ConfigComplete == config.keys = ConfigKeySet /\ config.stem = VmName

\* C20: a child is spawned only after load_config succeeded on a complete config whose
\* name is its file stem and with the firmware-variables file present; load_config
\* raises VMConfigError on any other config and leaves no command behind; run()
\* without a command or without the firmware-variables file raises VMConfigError
\* with no child spawned.
C20_NoSpawnWithoutConfig ==
    /\ n_popen > 0 => ConfigComplete /\ config.uefi_vars_is_file /\ bhyve_command /= NoCommand
    /\ ~ConfigComplete => bhyve_command = NoCommand /\ vm_pc /= "loaded"
    /\ vm_pc = "load_failed"
        => ~ConfigComplete /\ vm_result = Raise("load_config", "VMConfigError")
    /\ vm_pc = "loaded" => ConfigComplete /\ bhyve_command /= NoCommand
    /\ (RunEnded /\ (bhyve_command = NoCommand \/ ~config.uefi_vars_is_file))
        => vm_result = Raise("run", "VMConfigError") /\ n_popen = 0
    /\ vm_result = Raise("run", "VMConfigError") => n_popen = 0

\* run() was called with no command loaded, the config lacking a key; it raised
C20_Witness ==
    /\ config.keys = ConfigKeySet \ {"tapdev"}
    /\ vm_result = Raise("run", "VMConfigError")
    /\ vm_pc = "terminated"
    /\ n_popen = 0

\* ------------------------------------------------------------------ C21

\* the Agent process has ended after its shutdown flag was set
TerminatedAfterFlag == pc = "exited" /\ shutdown_flag

\* C21: when the Agent has terminated after its shutdown flag was set, the registry is
\* empty and no watcher that was registered is still alive.
C21_DrainEmptiesRegistry ==
    TerminatedAfterFlag =>
        /\ Keys(registry) = {}
        /\ \A p \in Pids : procs[p].st /= "running"

\* ------------------------------------------------------------------ C24

\* run() has returned: the interpreter is exiting or has exited
RunReturned ==
    \/ pc \in {"run_returned", "sd_unlink", "sd_drain", "exited"}
    \/ (InCoordinator /\ ps_caller = "shutdown")

\* C24: whenever run() has returned, by the flag or by a failure inside the loop, the
\* exit code is 0, also when the drain had to kill watchers; while the accept loop is
\* still running the exit code is the initial one.
C24_RunReturnsZero ==
    /\ RunReturned => exit_code = 0
    /\ ~RunReturned => exit_code = InitExitCode

\* the loop was ended by a failure (no flag), the drain killed a watcher and the Agent
\* has exited with 0
C24_Witness ==
    /\ pc = "exited"
    /\ ~shutdown_flag
    /\ ps_kill_sent /= {}
    /\ exit_code = 0

\* ------------------------------------------------------------------ C28

\* the entries of a registry
Entries(d) == {d[i] : i \in 1..Len(d)}

\* this step handles client data that is no set_vm_state request for "up" or "down":
\* get_vm_state, list_vms, an unknown target state, malformed or invalid data
QuietRequestStep ==
    /\ pc = "accept"
    /\ raw_client_data' /= NoData
    /\ last_request'.action /= "set_vm_state"

\* C28: a step adds a registry entry only if it is a start whose spawn succeeded; a
\* step removes an entry only if it is a reap (housekeeping or inside the coordinator)
\* of a watcher whose exit the poll observed; a get_vm_state, list_vms, unknown target
\* state, malformed or invalid request changes no entry and sends no signal.
C28_RegistryFrame ==
    [][ /\ Entries(registry') \ Entries(registry) /= {}
            => /\ pc = "accept"
               /\ last_request' = [action |-> "set_vm_state", vm_name |-> last_request'.vm_name,
                                   vm_target_state |-> "up"]
               /\ exch'.spawn = "ok"
               /\ Entries(registry') \ Entries(registry)
                      = {[name |-> last_request'.vm_name, pid |-> next_pid]}
               /\ Entries(registry) \subseteq Entries(registry')
        /\ \A e \in Entries(registry) \ Entries(registry') :
               /\ pc \in {"accept", "ps_reap", "ps_final_reap"}
               /\ raw_client_data' = raw_client_data
               /\ procs[e.pid].st = "exited"
               /\ procs'[e.pid].st = "reaped"
        /\ QuietRequestStep
            => /\ registry' = registry
               /\ procs' = procs
               /\ ps_term_sent' = ps_term_sent
               /\ ps_kill_sent' = ps_kill_sent
               /\ ~InCoordinator'
      ]_vars

\* a list_vms request was answered while a registered watcher had exited unobserved:
\* its entry is still there
C28_Witness ==
    /\ Answered
    /\ last_request.action = "list_vms"
    /\ \E e \in Entries(registry) : procs[e.pid].st = "exited"

\* ------------------------------------------------------------------ C30

\* C30: from the first terminate() of a coordinator run until the run returns, the
\* Agent handles no client data, leaves the coordinator only through its return, and
\* a shutdown flag set in the meantime moves nothing; when the run returns, every
\* handle that was sent terminate() has been reaped after an observed exit or has been
\* sent kill().
C30_SequenceRunsToCompletion ==
    [][ InCoordinator
            => /\ last_request' = last_request
               /\ raw_client_data' = raw_client_data
               /\ exit_code' = exit_code
               /\ InCoordinator' \/ pc = "ps_return"
               /\ InCoordinator' => ps_caller' = ps_caller /\ ps_targets' = ps_targets
               /\ shutdown_flag' /= shutdown_flag => pc' = pc /\ psvars' = psvars
               /\ pc = "ps_return"
                      => /\ ps_term_sent = ps_targets
                         /\ \A p \in ps_term_sent :
                                procs[p].st = "reaped" \/ p \in ps_kill_sent
                         /\ pc' \in {pc, IF ps_caller = "stop" THEN "loop" ELSE "exited"}
      ]_vars

\* a stop has been answered after a forced kill, the shutdown flag having been set
\* while the coordinator ran: the flag is still waiting for the loop test
C30_Witness ==
    /\ Answered
    /\ IsDown
    /\ ps_kill_sent /= {}
    /\ shutdown_flag
    /\ exit_code = InitExitCode

\* ------------------------------------------------------------------ C27

\* C27: the step in which adding the tap to the bridge fails sends no signal, leaves
\* the child and the result alone and goes on to the busy loop; any signal the watcher
\* ever sends is sent from the busy loop's shutdown path with the shutdown flag set.
C27_AttachFailureContinues ==
    [][ /\ (vm_pc = "net_add" /\ h_net' /= h_net /\ h_net'[current] = "add_failed")
            => /\ vm_pc' = "poll"
               /\ h_signals' = h_signals
               /\ h_shutdown' = h_shutdown
               /\ bhyve_proc' = bhyve_proc
               /\ vm_result' = vm_result
               /\ network_setup_done' = network_setup_done
        /\ h_signals' /= h_signals
            => vm_shutdown_flag /\ vm_pc \in {"sleep", "sb_wait"}
      ]_vars

\* the attach has failed and the watcher is in its busy loop over the running child,
\* no signal sent
C27_Witness ==
    /\ n_popen > 0
    /\ h_net[current] = "add_failed"
    /\ vm_pc = "sleep"
    /\ bhyve_proc.st = "running"
    /\ h_signals[current] = {}
    /\ ~vm_shutdown_flag

\* ------------------------------------------------------------------ C22

\* watcher p has exited, unobserved, and is still the registered handle of its name
ExitedRegistered(p) ==
    /\ procs[p].st = "exited"
    /\ \E e \in Entries(registry) : e.pid = p

\* this step handles a get_vm_state, list_vms or set_vm_state "up" request, or client
\* data that reaches no handler
NonStopRequestStep ==
    /\ pc = "accept"
    /\ raw_client_data' /= NoData
    /\ ~(last_request'.action = "set_vm_state" /\ last_request'.vm_target_state = "down")

\* C22: a registered watcher that has exited without having been sent kill() is
\* eventually popped from the registry and reaped, whatever the clients do; and no
\* get_vm_state, list_vms or start request pops or reaps anything.
C22_ExitedEventuallyReaped ==
    /\ \A p \in Pids :
          (ExitedRegistered(p) /\ p \notin ps_kill_sent)
              ~> (procs[p].st = "reaped" /\ \A e \in Entries(registry) : e.pid /= p)
    /\ [][ NonStopRequestStep
              => /\ Entries(registry) \subseteq Entries(registry')
                 /\ \A p \in Pids : procs'[p].st = "reaped" => procs[p].st = "reaped"
         ]_vars

\* housekeeping has popped and reaped a watcher that had exited on its own (no stop
\* was asked for its name since its start), no request having been handled in this
\* pass of the loop
C22_Witness ==
    /\ pc = "loop"
    /\ raw_client_data = NoData
    /\ last_request = NoRequest
    /\ \E p \in Pids :
          /\ procs[p].st = "reaped"
          /\ procs[p].name \in up_since_stop
          /\ procs[p].name \notin Keys(registry)

\* ------------------------------------------------------------------ C23

VmBlockingWait == vm_pc \in {"sb_wait", "sb_communicate"}

\* C29: the Agent reaps (communicate()) only a handle whose exit its poll() in the same
\* pass has reported; the watcher is inside wait(timeout) or communicate() only after
\* _shutdown_bhyve has called terminate() on the current child, which, if still
\* running, has been sent the signal; the busy loop's own test is passed with the child
\* running, without blocking.
C29_BlockingWaitOnlyAfterCommit ==
    [][ /\ \A p \in Pids :
               (procs'[p].st = "reaped" /\ procs[p].st /= "reaped")
                   => procs[p].st = "exited"
        /\ VmBlockingWait'
            => /\ n_popen' > 0
               /\ h_shutdown'[n_popen'] /= "none"
               /\ bhyve_proc'.st = "running" => "terminate" \in h_signals'[n_popen']
        /\ (vm_pc = "sb_communicate" /\ vm_pc' /= vm_pc /\ vm_pc' /= "killed")
            => bhyve_proc.st = "exited"
      ]_vars

\* the watcher is blocked in wait(timeout) on a child that is still running and has
\* been sent terminate()
C29_Witness ==
    /\ vm_pc = "sb_wait"
    /\ n_popen > 0
    /\ bhyve_proc.st = "running"
    /\ h_signals[current] = {"terminate"}

\* ------------------------------------------------------------------ C26

\* both calls of load_config on ld_config have returned without raising
BothLoaded == ld_pc = "both_loaded" /\ LoadConfigError(ld_config) = "none"

\* C26: two loads of the same config file yield the same argument vector, whatever
\* else differs between them.
C26_SameConfigSameVector ==
    BothLoaded => ld_first.bhyve_command = ld_second.bhyve_command

\* C26, amended: two loads of the same config file yield the same argument vector
\* whatever the objects held before, provided that, if the file sets vnc_kbd_layout,
\* the layout file exists at both loads or at neither; the vector has "-K" and the
\* layout path exactly if the key is set and the file exists. A load that raises
\* leaves the command as it was.
C26_SameConfigAndLayoutFileSameVector ==
    /\ (BothLoaded /\ ("vnc_kbd_layout" \in ld_config.optional
                          => ld_files.first = ld_files.second))
        => /\ ld_first.bhyve_command = ld_second.bhyve_command
           /\ ld_first.bhyve_command /= NoCommand
    /\ BothLoaded
        => /\ ld_first.fields = ld_second.fields
           /\ (\E i \in 1..Len(ld_first.bhyve_command) : ld_first.bhyve_command[i] = <<"-K">>)
                 <=> ("vnc_kbd_layout" \in ld_config.optional /\ ld_files.first)
           /\ (\E i \in 1..Len(ld_second.bhyve_command) : ld_second.bhyve_command[i] = <<"-K">>)
                 <=> ("vnc_kbd_layout" \in ld_config.optional /\ ld_files.second)
    /\ (ld_pc = "both_loaded" /\ LoadConfigError(ld_config) /= "none")
        => /\ ld_first.bhyve_command = NoCommand
           /\ ld_second.bhyve_command = LoadConfig(FreshVm, ld_prior).bhyve_command

\* a file with no optional key was loaded on a fresh object and on one that had
\* loaded a file with every optional key: the same vector, none of the old options
C26_Witness ==
    /\ BothLoaded
    /\ ld_config.optional = {}
    /\ ld_prior.optional = OptionalConfigKeys
    /\ ld_first.bhyve_command = ld_second.bhyve_command
    /\ ld_second.bhyve_command /= LoadConfig(FreshVm, ld_prior).bhyve_command
    /\ ld_second.fields.mac = Unset

\* ------------------------------------------------------------------ C25

\* every field of the mapping that was built is in the decoded mapping, same value
SameFields(built, decoded) ==
    /\ decoded.t = "object"
    /\ \A k \in DOMAIN built : k \in DOMAIN decoded.v /\ decoded.v[k] = built[k]

\* C25: the server's decode of a request the client built has the request's field
\* values, and the client's decode of a response the server built (the JSON decode
\* and the parse of the decoded mapping) has the response's field values.
C25_CodecRoundTrip ==
    /\ (cx_side = "request" /\ cx_pc = "decoded") => SameFields(cx_data, cx_json)
    /\ (cx_side = "response" /\ cx_pc \in {"decoded", "parsed"})
        => SameFields(cx_data, cx_json)
    /\ (cx_side = "response" /\ cx_pc = "parsed") => SameFields(cx_data, cx_msg)

\* ------------------------------------------------------------------ C31

\* the coordinator has returned to its caller
CoordinatorReturned == pc = "returned" \/ (pc = "loop" /\ ps_caller = "stop")

C32_VectorNeverChanges ==
    [][ /\ bhyve_command' /= bhyve_command
            => /\ vm_pc = "constructed"
               /\ vm_pc' = "loaded"
               /\ n_popen = 0
        /\ n_popen' /= n_popen
            => /\ bhyve_command' = bhyve_command
               /\ bhyve_proc'.args = bhyve_command
               /\ bhyve_proc'.args = BhyveCommand(config)
               /\ n_popen > 0 => bhyve_proc'.args = bhyve_proc.args
               /\ bhyve_proc'.args[Len(bhyve_proc'.args)] = <<VmName>>
      ]_vars

\* the third child of one run() is running, started with the vector the config with
\* every optional key gave
C32_Witness ==
    /\ n_popen = 3
    /\ bhyve_proc.st = "running"
    /\ config.optional = OptionalConfigKeys
    /\ config.kbd_layout_is_file
    /\ bhyve_proc.args = bhyve_command
    /\ bhyve_command[Len(bhyve_command)] = <<VmName>>

\* ------------------------------------------------------------------ C33

\* run() was called with the shutdown flag already set and got past its two checks
FlagSetBeforeRun == h_flag_at_run = "set" /\ vm_result /= Raise("run", "VMConfigError")

\* C33 as stated: when the flag is set before run() starts, run() spawns exactly one
\* child, performs the network setup once, calls _shutdown_bhyve on the child, and
\* returns 0 when the child exits with code 1.
C33_FlagBeforeRunOneChild ==
    (FlagSetBeforeRun /\ RunEnded)
        => /\ n_popen = 1
           /\ h_net[1] \in {"add_ok", "add_failed"}
           /\ h_shutdown[1] /= "none"
           /\ bhyve_proc.returncode = 1 => vm_result = Return("return 0")

\* C33, amended: the flag is read in the busy loop only, after a poll that found the
\* child alive and the sleep that follows it, and a tick that finds it set calls
\* _shutdown_bhyve. With the flag set before run() starts, run() still spawns a first
\* child and starts the network setup for it; a child that is alive at the first poll
\* is shut down at that first tick; a further child is spawned only after a child
\* exited with code 0; and when the first child was shut down at its first tick and
\* exited with code 1, run() has returned 0 with that one child and one network setup.
C33_FlagReadInBusyLoopOnly ==
    /\ [][ /\ (vm_pc' = "sb_wait" /\ vm_pc /= "sb_wait")
               => vm_pc = "sleep" /\ vm_shutdown_flag /\ h_shutdown[current] = "none"
           /\ (vm_pc = "sleep" /\ vm_pc' \notin {"sleep", "killed"})
               => (vm_shutdown_flag <=> vm_pc' = "sb_wait")
           /\ (vm_pc = "sleep" /\ vm_pc' = "poll") => h_flag_at_run = "clear"
           /\ (n_popen' /= n_popen /\ n_popen > 0) => bhyve_proc.returncode = 0
         ]_vars
    /\ []((FlagSetBeforeRun /\ RunEnded) => (n_popen >= 1 /\ NetworkStepRan(1)))
    /\ []((FlagSetBeforeRun /\ RunEnded /\ n_popen = 1 /\ h_shutdown[1] /= "none"
               /\ bhyve_proc.returncode = 1)
           => (/\ vm_result = Return("return 0")
               /\ h_net[1] \in {"add_ok", "add_failed"}
               /\ \A c \in Children \ {1} : h_net[c] = "unborn"))

\* run() was called with the flag set; its one child was attached to the bridge, sent
\* terminate() at the first tick, powered off in time, and run() returned 0
C33_Witness ==
    /\ FlagSetBeforeRun
    /\ RunEnded
    /\ n_popen = 1
    /\ h_net[1] = "add_ok"
    /\ h_signals[1] = {"terminate"}
    /\ h_shutdown[1] = "graceful"
    /\ bhyve_proc.returncode = 1
    /\ vm_result = Return("return 0")

\* ------------------------------------------------------------------ C34

\* the watcher's control thread takes a step from position at
VmStepFrom(at) == vm_pc = at /\ vm_pc' \notin {at, "killed"}

\* C34: the watcher's shutdown of a child is: a poll that finds the child alive (and
\* the sleep after it), terminate(), one wait(timeout), kill() exactly if the wait
\* timed out, one communicate() that returns once the child has ended, and a poll
\* that reports the exit and ends the busy loop; _shutdown_bhyve is entered at most
\* once per child, and signals are sent by these steps only.
C34_ShutdownOrder ==
    /\ [][ /\ (vm_pc' = "sleep" /\ vm_pc /= "sleep")
               => vm_pc = "poll" /\ bhyve_proc.st = "running"
           /\ (vm_pc' = "sb_wait" /\ vm_pc /= "sb_wait")
               => /\ vm_pc = "sleep" /\ vm_shutdown_flag
                  /\ h_shutdown[current] = "none" /\ h_shutdown'[current] = "waiting"
                  /\ h_signals[current] = {}
                  /\ h_signals'[current] =
                         (IF bhyve_proc.st = "running" THEN {"terminate"} ELSE {})
           /\ VmStepFrom("sb_wait")
               => /\ vm_pc' = "sb_communicate"
                  /\ h_shutdown'[current] =
                         (IF bhyve_proc.st = "running" THEN "forced" ELSE "graceful")
                  /\ h_signals'[current] =
                         (IF bhyve_proc.st = "running" THEN h_signals[current] \cup {"kill"}
                          ELSE h_signals[current])
           /\ VmStepFrom("sb_communicate")
               => /\ vm_pc' = "poll"
                  /\ bhyve_proc.st = "exited"
                  /\ h_signals' = h_signals /\ h_shutdown' = h_shutdown
           /\ (VmStepFrom("poll") /\ h_shutdown[current] /= "none")
               => vm_pc' = "map" /\ bhyve_proc.st = "exited"
           /\ h_signals' /= h_signals => vm_pc \in {"sleep", "sb_wait"} /\ vm_pc' /= vm_pc
         ]_vars
    /\ [](\A c \in Children :
             /\ "kill" \in h_signals[c] => h_shutdown[c] = "forced" /\ "terminate" \in h_signals[c]
             /\ h_shutdown[c] = "forced" => "kill" \in h_signals[c]
             /\ h_shutdown[c] = "waiting" => c = n_popen /\ vm_pc \in {"sb_wait", "killed"})

\* the forced path is through: the child ignored terminate(), the wait timed out, it
\* was killed and reaped, and the final poll has reported its exit
C34_Witness ==
    /\ vm_pc = "map"
    /\ n_popen > 0
    /\ h_shutdown[current] = "forced"
    /\ h_signals[current] = {"terminate", "kill"}
    /\ bhyve_proc.st = "exited"
    /\ bhyve_proc.returncode \in KilledReturnCodes

\* ------------------------------------------------------------------ C35

\* the Agent is inside the while loop of run(), a stop request's coordinator included
InAcceptLoop == pc \in {"loop", "accept"} \/ (InCoordinator /\ ps_caller = "stop")

\* C35: once the shutdown flag is set the Agent leaves the accept loop and ends: the
\* loop test sees the flag at its next evaluation, accept() is never called again once
\* the flag is set (at most the accept() under way and the request it delivers are
\* finished), and after run() has returned no client data is handled. _shutdown then
\* closes the listening socket, removes the socket file, and only after both sends
\* terminate() or kill() to the registered watchers.
C35_FlagEndsLoopThenDrains ==
    /\ shutdown_flag ~> ~InAcceptLoop
    /\ shutdown_flag ~> pc = "exited"
    /\ [][ /\ (shutdown_flag /\ pc' = "accept") => pc = "accept"
           /\ (pc = "loop" /\ pc' /= "loop") => (shutdown_flag <=> pc' = "run_returned")
           /\ RunReturned
               => /\ RunReturned'
                  /\ raw_client_data' = raw_client_data
                  /\ last_request' = last_request
                  /\ response' = response
           /\ server_socket' /= server_socket
               => /\ pc = "run_returned" /\ server_socket' = "closed"
                  /\ socket_file /\ socket_file'
           /\ socket_file' /= socket_file
               => server_socket = "closed" /\ ~socket_file' /\ ~InCoordinator'
           /\ (ps_caller' = "shutdown"
                  /\ (ps_term_sent' \ ps_term_sent) \cup (ps_kill_sent' \ ps_kill_sent) /= {})
               => server_socket = "closed" /\ ~socket_file
         ]_vars
    /\ [](pc = "accept" => server_socket = "open" /\ socket_file)

\* the flag was set while two watchers were registered; the Agent has left the loop,
\* closed the socket, removed the file, signalled both watchers and ended
C35_Witness ==
    /\ pc = "exited"
    /\ shutdown_flag
    /\ server_socket = "closed"
    /\ ~socket_file
    /\ ps_caller = "shutdown"
    /\ Cardinality(ps_term_sent) = 2

\* ------------------------------------------------------------------ C36

\* C36: a step that answers set_vm_state(up) with success leaves a watcher registered
\* under the name that is running when the response is sent.
C36_UpSuccessMeansAlive ==
    [][ (pc = "accept" /\ IsUp' /\ response'.result = "success")
            => /\ Get(registry', last_request'.vm_name) /= NoPid
               /\ procs'[Get(registry', last_request'.vm_name)].st = "running"
      ]_vars

\* ------------------------------------------------------------------ C37

\* run() is executing: past its two checks and not yet ended
RunExecuting ==
    vm_pc \in {"spawn", "net_wait", "net_add", "poll", "sleep", "sb_wait", "sb_communicate",
               "map"}

\* C37: once the shutdown flag is set while run() is executing, run() eventually ends
\* (unless SIGKILL ends the watcher first), whatever exit codes its children end with.
C37_FlagLeadsToReturn ==
    (vm_shutdown_flag /\ RunExecuting) ~> (RunEnded \/ vm_pc = "killed")

\* ------------------------------------------------------------------ C38

\* C38: whenever run() has ended after spawning a child, by return or by a raised
\* error, its most recently spawned child has exited.
C38_RunEndsAfterChildExit ==
    (RunEnded /\ n_popen > 0) => bhyve_proc.st = "exited"

\* ------------------------------------------------------------------ C39

\* C39: when the Agent stops or drains the watcher, SIGKILL never ends the watcher, and
\* once the watcher it sent SIGTERM to is gone the watcher's child is not running.
C39_WatcherDoneBeforeDeadline ==
    /\ vm_pc /= "killed"
    /\ (WatcherPid \in ps_term_sent /\ WatcherGone) => bhyve_proc.st /= "running"

\* ------------------------------------------------------------------ C40

\* watcher processes spawned for name that are alive
Alive(name) == {p \in Pids : procs[p].name = name /\ procs[p].st = "running"}

\* C40: at every moment at most one watcher process spawned by the Agent is alive
\* for any VM name.
C40_OneLiveWatcherPerName ==
    \A name \in Names : Cardinality(Alive(name)) <= 1

\* a name is on its second watcher: the first has ended and was reaped, the second
\* is alive
C40_Witness ==
    \E name \in Names : \E p \in Pids :
        /\ procs[p].name = name
        /\ procs[p].st = "reaped"
        /\ Alive(name) /= {}

====
